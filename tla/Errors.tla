------------------------------- MODULE Errors --------------------------------
(* Error::from_response (src/core/error.cpp): what a client says of a         *)
(* response that is not 200.  A body is JSON, or not; of a JSON object only   *)
(* the fields count that one of the three formats of errors knows, and of a   *)
(* field whether it is a string, an array, or anything else.  A text is a     *)
(* sequence of words, as in the requests.  That texts are cut off after 256   *)
(* bytes is left out.                                                         *)
EXTENDS Json, Integers, TLC

NotJson(text)      == [json |-> "none", text |-> text]
ErrorJson(fields)  == [json |-> "object", fields |-> fields]
OtherJson          == [json |-> "other"]

\* extract_string_into: the field, or what was there before.
Extracted(fields, key, before) ==
  IF key \in DOMAIN fields /\ fields[key].type = "string" THEN fields[key].text ELSE before

IsCdo(fields) ==
  "status" \in DOMAIN fields /\ "message" \in DOMAIN fields /\ fields["message"].type = "string"

IsDataService(fields) ==
  "errorMessage" \in DOMAIN fields /\ fields["errorMessage"].type = "string"

\* populate_message_from_generic.
Message(fields) ==
  IF IsCdo(fields) THEN fields["message"].text
  ELSE IF IsDataService(fields) THEN fields["errorMessage"].text
  ELSE Extracted(fields, "title", << >>)

Details(fields) ==
  LET list == IF "errors" \in DOMAIN fields /\ fields["errors"].type = "array"
                THEN SelectSeq(fields["errors"].items, LAMBDA item : item.type = "string")
                ELSE << >>
  IN  FoldLeft(LAMBDA joined, item :
                 (IF joined = << >> THEN << >> ELSE Append(joined, "; ")) \o item.text,
               << >>, list)

Detail(fields) ==
  IF IsCdo(fields) THEN << >>
  ELSE IF IsDataService(fields) THEN Details(fields)
  ELSE Extracted(fields, "detail", << >>)

\* Of the codes that from_response gives, only 5xx is a range.
CodeOf(status) ==
  CASE status = 404  -> "NotFound"
    [] status = 400  -> "InvalidRequest"
    [] status = 429  -> "RateLimited"
    [] status >= 500 -> "ServerError"
    [] OTHER         -> "Unknown"

FromResponse_Silent(status, body) ==
  [kind |-> "error", code |-> CodeOf(status), http_status |-> status,
   message |-> IF body.json = "object" THEN Message(body.fields)
               ELSE IF body.json = "none" THEN body.text ELSE << >>,
   detail |-> IF body.json = "object" THEN Detail(body.fields) ELSE << >>]

FromResponse(status, body) ==
  LET text == IF body.json = "object" THEN Message(body.fields)
              ELSE IF body.json = "none" THEN body.text ELSE << >>
  IN  [kind |-> "error", code |-> CodeOf(status), http_status |-> status,
       message |-> IF text = << >> THEN <<"HTTP", ToString(status)>> ELSE text,
       detail |-> IF body.json = "object" THEN Detail(body.fields) ELSE << >>]
=============================================================================
