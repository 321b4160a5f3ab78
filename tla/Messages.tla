------------------------------- MODULE Messages -------------------------------
(***************************************************************************)
(* Message objects and their text: message.c, request_message.c,           *)
(* response_message.c and notice_message.c.                                *)
(*                                                                         *)
(* An object is a function from the names of its properties to values; its *)
(* text is a JSON object with the members head and body.  A body is a      *)
(* value of its own, copied whenever it goes into or comes out of a text.  *)
(***************************************************************************)
CONSTANTS
    NoBody,     \* NULL
    JsonNull    \* the JSON value null

(* What f says, and where it says nothing what g does. *)
Over(f, g) ==
    [x \in DOMAIN f \cup DOMAIN g |-> IF x \in DOMAIN f THEN f[x] ELSE g[x]]

(* g_object_new runs the init function of the class and of its parent, then
   sets the properties it was given. *)
Base == [type |-> "", token |-> "", version |-> "1.0", body |-> NoBody]

NewRequest(uuid, properties) ==
    Over(properties, Over([type |-> "request", id |-> uuid, action |-> ""], Base))

NewResponse(properties) ==
    Over(properties,
         Over([type |-> "response", action |-> "", id |-> "", code |-> ""], Base))

NewNotice(properties) ==
    Over(properties, Over([type |-> "notice", event |-> ""], Base))

(* ipcam_request_message_get_response_message *)
ResponseTo(request, code) ==
    NewResponse([action |-> request.action, id |-> request.id, code |-> code])

(* ipcam_response_message_has_error *)
HasError(response) == response.code # "0"

-----------------------------------------------------------------------------
(* The members of the head that only one type of message has. *)
Own(type) ==
    CASE type = "notice"   -> {"event"}
      [] type = "request"  -> {"action", "id"}
      [] type = "response" -> {"action", "id", "code"}
      [] OTHER             -> {}

Pick(m, names) == [f \in names |-> m[f]]

(* ipcam_message_to_string: no body is written as null. *)
MessageToString(m) ==
    [head |-> Pick(m, {"type", "token", "version"} \cup Own(m.type)),
     body |-> IF m.body = NoBody THEN JsonNull ELSE m.body]

(* Mutant: the code is not read. *)
ParseWithoutCode(json, uuid) ==
    LET head == json.head
        given == Pick(head, Own(head.type) \ {"code"})
    IN  Over([token |-> head.token, version |-> head.version, body |-> json.body],
             CASE head.type = "request"  -> NewRequest(uuid, given)
               [] head.type = "response" -> NewResponse(given)
               [] head.type = "notice"   -> NewNotice(given))

(* ipcam_message_parse_from_string: the object of a request is born with an id
   of its own, which the one in the text replaces. *)
Parse(json, uuid) ==
    LET head == json.head
        given == Pick(head, Own(head.type))
    IN  Over([token |-> head.token, version |-> head.version, body |-> json.body],
             CASE head.type = "request"  -> NewRequest(uuid, given)
               [] head.type = "response" -> NewResponse(given)
               [] head.type = "notice"   -> NewNotice(given))
=============================================================================
