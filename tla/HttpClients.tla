----------------------------- MODULE HttpClients -----------------------------
(* The lives of ncei::HttpClient objects and of what they share: the libcurl  *)
(* runtime, initialised by the first of them and held by a static shared_ptr  *)
(* and by the Impl of each (src/http/client.cpp).  Objects are made, moved    *)
(* and destroyed by any thread, and may outlive main: the static is released  *)
(* at the end of the process (Exit), before or after the last client goes.    *)
(* A destructor is three steps, as other threads see it: the pointer goes,    *)
(* the easy handle is closed, the runtime is let go.                          *)
(*                                                                            *)
(* libcurl is external: its initialisation may fail, and so may the making of *)
(* a handle.  An operator Name_Flaw is Name with the flaw that its suffix     *)
(* tells, for the model checker to put in Name's place.                       *)
EXTENDS FiniteSets

CONSTANTS
  Client,       \* HttpClient objects
  Impl,         \* the Impl objects that their impl_ points to
  Configs,      \* the ClientConfig values that clients are made with
  Static,       \* the static shared_ptr of runtime()
  NoObject,     \* impl_ of an object that does not exist
  Null          \* impl_ of an object that was moved from; no config

ASSUME ClientsAssumption ==
  /\ Null # NoObject
  /\ {Null, NoObject, Static} \cap Impl = {}
  /\ Null \notin Configs

VARIABLES
  runtime,      \* CurlRuntime: "none" yet, "ready", "failed" or "cleaned" up
  holders,      \* who holds a shared_ptr to it
  exited,       \* the static has been released
  impl_,        \* where the pointer of each client points
  config,       \* config of each Impl
  curl          \* each handle: "absent", "null", "open" or "closed"

lifeVars == <<runtime, holders, exited, impl_, config, curl>>

LivesInit ==
  /\ runtime = "none"
  /\ holders = {}
  /\ exited = FALSE
  /\ impl_ = [c \in Client |-> NoObject]
  /\ config = [i \in Impl |-> Null]
  /\ curl = [i \in Impl |-> "absent"]
----------------------------------------------------------------------------
Pointed == {impl_[c] : c \in Client} \cap Impl

\* runtime(): the first caller initialises libcurl.
RuntimeStatus == IF runtime = "none" THEN {"ready", "failed"} ELSE {runtime}

\* Impl::Impl; there is no first use of the static once it is gone.
Construct(c, i, settings) ==
  /\ ~exited
  /\ impl_[c] = NoObject
  /\ curl[i] = "absent"
  /\ \E status \in RuntimeStatus :
        /\ runtime' = status
        /\ curl' \in {[curl EXCEPT ![i] = h] :
                        h \in IF status = "ready" THEN {"open", "null"} ELSE {"null"}}
  /\ holders' = holders \cup {Static, i}
  /\ impl_' = [impl_ EXCEPT ![c] = i]
  /\ config' = [config EXCEPT ![i] = settings]
  /\ UNCHANGED exited

\* The move constructor of d from c.
MoveConstruct(c, d) ==
  /\ impl_[c] # NoObject
  /\ impl_[d] = NoObject
  /\ impl_' = [impl_ EXCEPT ![d] = impl_[c], ![c] = Null]
  /\ UNCHANGED <<runtime, holders, exited, config, curl>>

\* d = std::move(c): what d pointed to is left to its destructor.
MoveAssign(c, d) ==
  /\ c # d
  /\ impl_[c] # NoObject
  /\ impl_[d] # NoObject
  /\ impl_' = [impl_ EXCEPT ![d] = impl_[c], ![c] = Null]
  /\ UNCHANGED <<runtime, holders, exited, config, curl>>

Destroy(c) ==
  /\ impl_[c] # NoObject
  /\ impl_' = [impl_ EXCEPT ![c] = NoObject]
  /\ UNCHANGED <<runtime, holders, exited, config, curl>>

Dying(i) == i \in holders \ Pointed

\* ~Impl: its body, and then its members from the last to the first.
CloseHandle(i) ==
  /\ Dying(i)
  /\ curl[i] \in {"open", "null"}
  /\ curl' = [curl EXCEPT ![i] = "closed"]
  /\ config' = [config EXCEPT ![i] = Null]
  /\ UNCHANGED <<runtime, holders, exited, impl_>>

\* ~shared_ptr, and ~CurlRuntime when it was the last.
LetGo_AtExit(holder) ==
  /\ holders' = holders \ {holder}
  /\ runtime' = IF holder = Static /\ runtime = "ready" THEN "cleaned" ELSE runtime

LetGo(holder) ==
  /\ holders' = holders \ {holder}
  /\ runtime' = IF holders' = {} /\ runtime = "ready" THEN "cleaned" ELSE runtime

ReleaseRuntime(i) ==
  /\ Dying(i)
  /\ curl[i] = "closed"
  /\ LetGo(i)
  /\ curl' = [curl EXCEPT ![i] = "absent"]
  /\ UNCHANGED <<exited, impl_, config>>

\* The end of the process releases the static, if there ever was one.
Exit ==
  /\ ~exited
  /\ exited' = TRUE
  /\ IF Static \in holders THEN LetGo(Static) ELSE UNCHANGED <<runtime, holders>>
  /\ UNCHANGED <<impl_, config, curl>>

Lives ==
  \/ \E c \in Client :
        \/ \E i \in Impl, settings \in Configs : Construct(c, i, settings)
        \/ \E d \in Client : MoveConstruct(c, d) \/ MoveAssign(c, d)
        \/ Destroy(c)
  \/ \E i \in Impl : CloseHandle(i) \/ ReleaseRuntime(i)
  \/ Exit

LivesSpec == LivesInit /\ [][Lives]_lifeVars
----------------------------------------------------------------------------
LivesTypeOK ==
  /\ runtime \in {"none", "ready", "failed", "cleaned"}
  /\ holders \subseteq Impl \cup {Static}
  /\ exited \in BOOLEAN
  /\ impl_ \in [Client -> Impl \cup {Null, NoObject}]
  /\ config \in [Impl -> Configs \cup {Null}]
  /\ curl \in [Impl -> {"absent", "null", "open", "closed"}]

\* No easy handle outlives curl_global_cleanup, in whatever order clients are
\* made, moved and destroyed and the static goes; no Impl has two owners; and
\* the runtime is cleaned up once nobody holds it (the comment on Impl::global:
\* "Kept alive until after this instance's easy handle has been closed").
RuntimeOutlivesHandles ==
  /\ \A i \in Impl : curl[i] = "open" => runtime = "ready"
  /\ \A c, d \in Client : impl_[c] = impl_[d] /\ c # d => impl_[c] \notin Impl
  /\ runtime = "ready" <=> (holders # {} /\ runtime # "failed")
=============================================================================
