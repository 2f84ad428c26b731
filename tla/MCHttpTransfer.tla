--------------------------- MODULE MCHttpTransfer ----------------------------
(* HttpTransfer for TLC: two clients and two Impl objects, so that one can be *)
(* destroyed, moved or assigned over while the other works; up to three       *)
(* responses of up to two lines, the status line among them, and up to three  *)
(* bytes; one redirect is followed.                                           *)
(* long holds no more than two seconds and size_t no more than three bytes.   *)
EXTENDS HttpTransfer

Settings_(timeout, limit, extra) ==
  [valid |-> TRUE, timeout |-> timeout, max_response_bytes |-> limit, extra_headers |-> extra]

MCConfigs ==
  {Settings_(3, 2, << >>), Settings_(0, 0, <<TRUE>>), Settings_(1, 1, <<TRUE, FALSE>>),
   Settings_(-1, 0, << >>)}
=============================================================================
