------------------------------- MODULE RestApi -------------------------------
(***************************************************************************)
(* The northbound side of AF core around QodRequest: an HTTP request comes *)
(* to an endpoint of QodRestAdapter, RestRouter makes a message of it,     *)
(* RequestRouter finds the handler of its type, QodHandler serves it, and  *)
(* RestRouter makes an HTTP response of the handler's reply.  A message of *)
(* another transport comes to RequestRouter directly.  Endpoints, message  *)
(* types, metadata keys and handlers are tied together by names only.      *)
(*                                                                         *)
(* One request is served; the sessions it concerns are changed by others   *)
(* while it is.  Operations of QodSessionManager are single steps here     *)
(* (QodSession has their interleavings).  A path is the sequence of its    *)
(* segments after /quality-on-demand/v1.                                   *)
(***************************************************************************)
EXTENDS QodRequest

CONSTANTS
  Calls,        \* [call, request, stored]: a request and what is stored when it comes
  Decode,       \* percent-encoded segment -> text
  Lower,        \* header name -> header name in lower case
  QueryKey,     \* name of a query parameter -> "query." and the name
  TwoLegged,    \* the consumers whose id has "2-legged" in it
  Fresh         \* a generated correlation id

\* The body of a request that is a JSON object.
Readable(r) == r.body \notin {None, Unparseable}

\* A ports object of the API's schema.
PortsObject(j) ==
  \/ j = None
  \/ /\ Has(j, "ranges") => j["ranges"] \in Seq(Nat \X Nat)
     /\ Has(j, "ports") => j["ports"] \in Seq(Nat)

\* The types of the HTTP service, which has no empty segments, and of the API's schema.
ASSUME CallAssumption ==
  \A c \in Calls :
    /\ c.call.transport = "http" => c.call.path \in Seq(STRING)
                                      /\ \A i \in DOMAIN c.call.path : Decode[c.call.path[i]] # ""
                                      /\ \A n \in DOMAIN c.call.query : QueryKey[n] # "sessionId"
    /\ Readable(c.request) => \A key \in {"devicePorts", "applicationServerPorts"} :
                                PortsObject(Value(c.request.body, key, None))

\* The two lists of a ports specification, as they are written.
PortLists(ports) == NonEmpty("ranges", ports.ranges) @@ NonEmpty("ports", ports.ports)

\* Neither they nor what is read of them is null.
PortsWritten(ports) ==
  ports # None => /\ PortLists(ports) # None /\ PortsForPcf(ports) # None
                  /\ parse_ports(PortLists(ports)) # None

\* What is shown of a device is one of its identifiers, or some.
Shows(shown, device) ==
  /\ \A f \in {"phone_number", "network_access_identifier", "ipv4_address", "ipv6_address"} :
       shown[f] \in {None, device[f]}
  /\ LET a == shown.ipv4_address
     IN  a # None => a = [public_address |-> a.public_address, private_address |-> a.private_address,
                          public_port |-> a.public_port]

\* A session as create_session leaves it in the store.
WellMade(s) ==
  /\ DOMAIN s = {"consumer", "status", "qos_profile", "duration", "device", "device_response",
                 "application_server", "device_ports", "application_server_ports"}
  /\ LET a == s.application_server IN a = [ipv4_address |-> a.ipv4_address, ipv6_address |-> a.ipv6_address]
  /\ PortsWritten(s.device_ports) /\ PortsWritten(s.application_server_ports)
  /\ s.device_response # None => s.device # None /\ Shows(s.device_response, s.device)

\* null and an absent optional are no JSON object and no struct.
ASSUME NullAssumption ==
  /\ None \notin ValidIpv4 \cup ValidIpv6
  /\ \A status \in {400, 422} :
       \A code \in {"UNNECESSARY_IDENTIFIER", "MISSING_IDENTIFIER", "INVALID_ARGUMENT", "OUT_OF_RANGE",
                    "DURATION_OUT_OF_RANGE", "INVALID_SINK"} : Error(status, code) # None
  /\ \A r \in {c.request : c \in Calls} : Readable(r) =>
       /\ \A key \in {"devicePorts", "applicationServerPorts"} :
            PortsWritten(parse_ports(Value(r.body, key, None)))
       /\ LET d == parse_device(Value(r.body, "device", None))
          IN  d # None => \A supi \in {None, Supi} :
                LET j == convert_device_to_pcf(d, supi)
                IN  /\ j # None /\ ParsePcfDevice(j) # None
                    /\ Has(j, "ipv4Address") => ParsePcfDevice(j).ipv4_address # None

\* The sessions in the store were made by create_session.
ASSUME StoredAssumption ==
  \A st \in {c.stored : c \in Calls} : \A id \in DOMAIN st : st[id] # None => WellMade(st[id])

VARIABLES
  call,         \* the request: transport, consumer, and its HTTP or message parts
  incoming,     \* the message RequestRouter gets
  stored,       \* session id -> session, or None
  reply,        \* the message a handler returns
  response,     \* the HTTP response
  effect,       \* what QodSessionManager did for the request
  seen          \* the states of the session the request is about, since it came

restVars == <<call, incoming, stored, reply, response, effect, seen>>
allVars  == <<stage, request, session, message, context, answer, restVars>>

requestVars == <<request, session, message, context, answer>>

-----------------------------------------------------------------------------
(* RestRouter and QodRestAdapter *)

Param == "{sessionId}"

Endpoint(method, pattern, type) == [method |-> method, pattern |-> pattern, type |-> type]

\* The endpoints, with the pattern given to create_handler; the HTTP service matches
\* "*" where the pattern has a parameter.
register_endpoints ==
  { Endpoint("POST",   <<"sessions">>,                  "qod_create_session"),
    Endpoint("GET",    <<"sessions", Param>>,           "qod_get_session"),
    Endpoint("DELETE", <<"sessions", Param>>,           "qod_delete_session"),
    Endpoint("POST",   <<"sessions", Param, "extend">>, "qod_extend_session"),
    Endpoint("POST",   <<"retrieve-sessions">>,         "qod_retrieve_sessions") }

Matches(pattern, path) ==
  Len(pattern) = Len(path) /\ \A i \in DOMAIN path : pattern[i] \in {Param, path[i]}

extract_path_params(pattern, path) ==
  IF ~Matches(pattern, path) THEN NoKeys
  ELSE [k \in {"sessionId" : i \in {j \in DOMAIN pattern : pattern[j] = Param}} |->
          Decode[path[CHOOSE i \in DOMAIN pattern : pattern[i] = Param]]]

extract_query_params(query) ==
  [k \in {QueryKey[n] : n \in DOMAIN query} |-> query[CHOOSE n \in DOMAIN query : QueryKey[n] = k]]

\* The header is looked up under two spellings of its name.
get_correlation_id(headers) ==
  IF Value(headers, "x-correlator", "") # "" THEN headers["x-correlator"]
  ELSE IF Value(headers, "X-Correlator", "") # "" THEN headers["X-Correlator"] ELSE Fresh

\* Of two assignments to a key the later one stays: headers, path, query, method.
http_request_to_message(type, pattern) ==
  [message_type |-> type, correlation_id |-> get_correlation_id(call.headers),
   metadata |-> ("http_method" :> call.method) @@ extract_query_params(call.query)
                  @@ extract_path_params(pattern, call.path)
                  @@ [k \in {Lower[h] : h \in DOMAIN call.headers} |->
                        call.headers[CHOOSE h \in DOMAIN call.headers : Lower[h] = k]]]

\* The first half of create_handler; without an endpoint the HTTP service answers.
create_handler ==
  /\ stage = "received" /\ call.transport = "http"
  /\ LET found == {e \in register_endpoints : e.method = call.method /\ Matches(e.pattern, call.path)}
     IN  \/ /\ found = {}
            /\ response' = [status |-> 404, correlator |-> None] /\ stage' = "done"
            /\ UNCHANGED incoming
         \/ \E e \in found :
              /\ incoming' = http_request_to_message(e.type, e.pattern) /\ stage' = "route"
              /\ UNCHANGED response
  /\ UNCHANGED <<requestVars, call, stored, reply, effect, seen>>

\* A message of another transport: no step before RequestRouter.
process_message ==
  /\ stage = "received" /\ call.transport = "message"
  /\ incoming' = [message_type |-> call.message_type, correlation_id |-> Fresh, metadata |-> call.metadata]
  /\ stage' = "route"
  /\ UNCHANGED <<requestVars, call, stored, reply, response, effect, seen>>

\* The status is the metadata's "status", 200 without one.
message_to_http_response ==
  /\ stage = "reply" /\ call.transport = "http"
  /\ response' = [status |-> Value(reply.metadata, "status", 200), correlator |-> reply.correlation_id]
  /\ stage' = "done"
  /\ UNCHANGED <<requestVars, call, incoming, stored, reply, effect, seen>>

-----------------------------------------------------------------------------
(* RequestRouter *)

\* configure_components: the types of the other managers.
configure_components ==
  ("qos_request" :> "PolicyManager") @@ ("get_subscriptions" :> "SubscriptionManager")
    @@ ("create_subscription" :> "SubscriptionManager") @@ ("get_subscription" :> "SubscriptionManager")
    @@ ("delete_subscription" :> "SubscriptionManager")

\* Faulty variant: no handler for the extension of sessions.
register_qod_handlers_without_extend ==
  ("qod_create_session" :> "QodHandler") @@ ("qod_get_session" :> "handle_get_session")
    @@ ("qod_delete_session" :> "handle_delete_session")
    @@ ("qod_retrieve_sessions" :> "handle_retrieve_sessions")

register_qod_handlers ==
  ("qod_create_session" :> "QodHandler") @@ ("qod_get_session" :> "handle_get_session")
    @@ ("qod_delete_session" :> "handle_delete_session") @@ ("qod_extend_session" :> "handle_extend_session")
    @@ ("qod_retrieve_sessions" :> "handle_retrieve_sessions")

handlers_ == register_qod_handlers @@ configure_components

Reply(type, metadata, body) ==
  /\ reply' = [message_type |-> type, correlation_id |-> incoming.correlation_id,
               metadata |-> metadata, body |-> body]
  /\ stage' = "reply"

\* The reply of the default handler has no status.
create_default_handler == Reply("error.unhandled_message_type", NoKeys, None)

route_message ==
  /\ stage = "route"
  /\ IF Has(handlers_, incoming.message_type)
     THEN stage' = handlers_[incoming.message_type] /\ UNCHANGED reply
     ELSE create_default_handler
  /\ UNCHANGED <<requestVars, call, incoming, stored, response, effect, seen>>

-----------------------------------------------------------------------------
(* QodHandler: the operations on sessions that exist *)

\* Helpers of the common library put the status into the metadata.
create_error_response(status)         == Reply("error", "status" :> status, None)
create_success_response(body, status) == Reply("success", "status" :> status, body)

device_to_json(d) ==
  Optional("phoneNumber", d.phone_number) @@ Optional("networkAccessIdentifier", d.network_access_identifier)
    @@ Optional("ipv6Address", d.ipv6_address)
    @@ (IF d.ipv4_address = None THEN NoKeys
        ELSE "ipv4Address" :> (("publicAddress" :> d.ipv4_address.public_address)
                                 @@ Optional("privateAddress", d.ipv4_address.private_address)
                                 @@ Optional("publicPort", d.ipv4_address.public_port)))

PortsJson(key, ports) == IF ports = None THEN NoKeys ELSE key :> Json(PortLists(ports))

\* Faulty variant: the ranges go under the key the southbound message has for them.
session_to_json_ranges(s, include_device) ==
  ("qosProfile" :> s.qos_profile) @@ ("duration" :> s.duration)
    @@ ("applicationServer" :> (Optional("ipv4Address", s.application_server.ipv4_address)
                                  @@ Optional("ipv6Address", s.application_server.ipv6_address)))
    @@ PortsJson("applicationServerPorts", s.application_server_ports)
    @@ (IF s.device_ports = None THEN NoKeys
        ELSE "devicePorts" :> Json(NonEmpty("port_ranges", s.device_ports.ranges)
                                     @@ NonEmpty("ports", s.device_ports.ports)))

\* The id, the status, its times and the sink are left out.
session_to_json(s, include_device) ==
  ("qosProfile" :> s.qos_profile) @@ ("duration" :> s.duration)
    @@ ("applicationServer" :> (Optional("ipv4Address", s.application_server.ipv4_address)
                                  @@ Optional("ipv6Address", s.application_server.ipv6_address)))
    @@ (IF include_device /\ s.device_response # None
        THEN "device" :> device_to_json(s.device_response) ELSE NoKeys)
    @@ PortsJson("devicePorts", s.device_ports)
    @@ PortsJson("applicationServerPorts", s.application_server_ports)

\* The one identifier create_session lets the responses show, to consumers whose id
\* says that they are 2-legged.
DeviceResponse(d, consumer) ==
  LET nothing == [phone_number |-> None, network_access_identifier |-> None,
                  ipv4_address |-> None, ipv6_address |-> None]
  IN  IF d = None \/ consumer \notin TwoLegged THEN None
      ELSE IF d.phone_number # None THEN [nothing EXCEPT !.phone_number = d.phone_number]
      ELSE IF d.ipv4_address # None THEN [nothing EXCEPT !.ipv4_address = d.ipv4_address]
      ELSE IF d.ipv6_address # None THEN [nothing EXCEPT !.ipv6_address = d.ipv6_address]
      ELSE None

extract_session_id(msg) ==
  LET id == Value(msg.metadata, "sessionId", "")
  IN  IF id = "" THEN Value(msg.metadata, "session_id", "") ELSE id

get_session(id, consumer) ==
  LET s == Value(stored, id, None)
  IN  IF s = None \/ s.consumer # consumer THEN None ELSE s

Did(op, id) == effect' = effect \cup {[op |-> op, id |-> id, consumer |-> call.consumer]}

handle_get_session ==
  /\ stage = "handle_get_session"
  /\ LET id == extract_session_id(incoming)
         s  == get_session(id, call.consumer)
     IN  \/ id = "" /\ create_error_response(400) /\ UNCHANGED effect
         \/ id # "" /\ s = None /\ create_error_response(404) /\ UNCHANGED effect
         \/ id # "" /\ s # None
            /\ create_success_response(session_to_json(s, s.device # None), 200) /\ Did("get", id)
  /\ UNCHANGED <<requestVars, call, incoming, stored, response, seen>>

\* The PCF may refuse to release an AVAILABLE session.  The reply to a deletion that
\* succeeded carries its status as "http_status".
handle_delete_session ==
  /\ stage = "handle_delete_session"
  /\ LET id == extract_session_id(incoming)
         s  == get_session(id, call.consumer)
     IN  \/ /\ ~(id # "" /\ s # None /\ s.status # "AVAILABLE")
            /\ create_error_response(400) /\ UNCHANGED <<stored, effect>>
         \/ /\ id # "" /\ s # None
            /\ stored' = [stored EXCEPT ![id].status = "UNAVAILABLE"]
            /\ Did("delete", id)
            /\ Reply("qod_delete_session_response", "http_status" :> 204, None)
  /\ UNCHANGED <<requestVars, call, incoming, response, seen>>

\* Up to the answer of extend_session_duration.
handle_extend_session ==
  /\ stage = "handle_extend_session"
  /\ LET id   == extract_session_id(incoming)
         s    == get_session(id, call.consumer)
         more == request.body["requestedAdditionalDuration"]
         total == s.duration + more
         cap  == get_max_duration_for_profile(s.qos_profile)
         valid == /\ id # "" /\ request.body \notin {None, Unparseable}
                  /\ Has(request.body, "requestedAdditionalDuration") /\ more >= 1
         found == s # None /\ s.status # "UNAVAILABLE"
     IN  \/ ~valid /\ create_error_response(400) /\ UNCHANGED <<stored, effect>>
         \/ /\ valid /\ ~found
            /\ stage' = "extend_failed" /\ UNCHANGED <<stored, effect, reply>>
         \/ /\ valid /\ found
            /\ stored' = [stored EXCEPT ![id].duration = IF total > cap THEN cap ELSE total]
            /\ Did("extend", id)
            /\ create_success_response(session_to_json(stored'[id], s.device # None), 200)
  /\ UNCHANGED <<requestVars, call, incoming, response, seen>>

\* The session is read again to find out why it was not extended.
ClassifyFailure ==
  /\ stage = "extend_failed"
  /\ LET s == get_session(extract_session_id(incoming), call.consumer)
     IN  create_error_response(IF s = None THEN 404 ELSE IF s.status # "AVAILABLE" THEN 409 ELSE 400)
  /\ UNCHANGED <<requestVars, call, incoming, stored, response, effect, seen>>

\* The network access identifier is not compared.
DeviceMatches(d, e) ==
  \/ d.phone_number # None /\ d.phone_number = e.phone_number
  \/ /\ d.ipv4_address # None /\ e.ipv4_address # None
     /\ \/ d.ipv4_address.public_address = e.ipv4_address.public_address
        \/ d.ipv4_address.private_address # None
             /\ d.ipv4_address.private_address = e.ipv4_address.private_address
  \/ d.ipv6_address # None /\ d.ipv6_address = e.ipv6_address

retrieve_sessions_by_device(device, consumer) ==
  {id \in DOMAIN stored :
     /\ stored[id] # None
     /\ stored[id].consumer = consumer /\ stored[id].status # "UNAVAILABLE"
     /\ device # None => stored[id].device # None /\ DeviceMatches(device, stored[id].device)}

\* A device is asked for only when the body is empty.  The sessions listed are the
\* effect; their JSON is left out.
handle_retrieve_sessions ==
  /\ stage = "handle_retrieve_sessions"
  /\ LET body   == request.body
         device == IF body \in {None, Unparseable} THEN None ELSE parse_device(Value(body, "device", None))
         given  == body \notin {None, Unparseable} /\ Has(body, "device")
         valid  == /\ body = None => request.three_legged
                   /\ given => ~validate_device(device, request.three_legged)
     IN  \/ ~valid /\ create_error_response(422) /\ UNCHANGED effect
         \/ body = Unparseable /\ create_error_response(400) /\ UNCHANGED effect
         \/ /\ valid /\ body # Unparseable
            /\ effect' = {[op |-> "retrieve", id |-> id, consumer |-> call.consumer] :
                            id \in {None} \cup retrieve_sessions_by_device(device, call.consumer)}
            /\ create_success_response(None, 200)
  /\ UNCHANGED <<requestVars, call, incoming, stored, response, seen>>

\* The last part of handle_create_session: a session, whatever became of it, is a 201.
CreateReply ==
  /\ stage \in {"answered", "sent"}
  /\ LET created == stage = "sent" \/ answer.code \in {"bad_request", "pcf_request_invalid"}
         full    == session @@ [device_response |-> DeviceResponse(session.device, call.consumer)]
     IN  \/ /\ created = TRUE /\ Did("create", None)
            /\ create_success_response(session_to_json(full, session.device # None /\ ~request.three_legged), 201)
         \/ /\ created = FALSE /\ create_error_response(answer.status)
            /\ UNCHANGED effect
  /\ UNCHANGED <<requestVars, call, incoming, stored, response, seen>>

CreateStep ==
  /\ handle_create_session \/ create_session \/ apply_session_to_pcf \/ handle_qod_create_pcf_session
  /\ UNCHANGED restVars

-----------------------------------------------------------------------------
(* What others do to a session meanwhile: an answer of the PCF (even one after the *)
(* session was deleted), a deletion, its removal.                                  *)
OthersAct ==
  /\ stage = "extend_failed"
  /\ \E id \in DOMAIN stored :
       /\ stored[id] # None
       /\ \/ \E status \in {"AVAILABLE", "UNAVAILABLE"} : stored' = [stored EXCEPT ![id].status = status]
          \/ stored' = [stored EXCEPT ![id] = None]
  /\ seen' = seen \cup {stored'}
  /\ UNCHANGED <<requestVars, stage, call, incoming, reply, response, effect>>

RestInit ==
  /\ stage = "received"
  /\ \E c \in Calls : call = c.call /\ request = c.request /\ stored = c.stored
  /\ session = None /\ message = None /\ context = None /\ answer = None
  /\ incoming = None /\ reply = None /\ response = None
  /\ effect = {} /\ seen = {stored}

RestNext ==
  \/ create_handler \/ process_message \/ route_message \/ message_to_http_response
  \/ handle_get_session \/ handle_delete_session \/ handle_extend_session \/ ClassifyFailure
  \/ handle_retrieve_sessions \/ CreateReply \/ CreateStep
  \/ OthersAct

RestSpec == RestInit /\ [][RestNext]_allVars

-----------------------------------------------------------------------------
(* Properties *)

\* The operation of the API that a method and a path mean.
Meaning ==
  CASE call.path = <<"sessions">> /\ call.method = "POST" -> "create"
    [] call.path = <<"retrieve-sessions">> /\ call.method = "POST" -> "retrieve"
    [] Len(call.path) = 2 /\ call.path[1] = "sessions" /\ call.method = "GET" -> "get"
    [] Len(call.path) = 2 /\ call.path[1] = "sessions" /\ call.method = "DELETE" -> "delete"
    [] Len(call.path) = 3 /\ call.path[1] = "sessions" /\ call.path[3] = "extend" /\ call.method = "POST" -> "extend"
    [] OTHER -> "none"

Named == IF Len(call.path) > 1 THEN Decode[call.path[2]] ELSE None
Own(s) == s # None /\ s.consumer = call.consumer

\* What the HTTP client is told is what happened.  A success means that the operation
\* its method and path stand for, and no other, was carried out for this consumer on
\* the session its path names, whatever headers and query say (so every endpoint's
\* type has its handler, which finds the id under the key the router stored it); an
\* error means that nothing was done; and a failed extension is answered 404 or 409
\* only if, at some time while it was handled, the consumer had no such session or
\* had it in another state than AVAILABLE (handle_extend_session reads it twice).
AnswerIsTrue ==
  stage = "done" =>
    /\ response.status < 300 =>
         /\ \E e \in effect : e.op = Meaning
         /\ \A e \in effect : e.op = Meaning /\ e.consumer = call.consumer
                              /\ (e.op \in {"get", "delete", "extend"} => e.id = Named)
                              /\ (e.op # "create" /\ e.id # None => \E st \in seen : Own(st[e.id]))
    /\ response.status >= 400 => effect = {}
    /\ Meaning = "extend" /\ response.status = 404 => \E st \in seen : ~Own(Value(st, Named, None))
    /\ response.status = 409 => \E st \in seen : Own(st[Named]) /\ st[Named].status # "AVAILABLE"

\* A body that describes a session: parsed again it gives the same server, the same
\* ports on both sides, profile and duration, and identifiers of no other device.
Describes(b, s) ==
  LET same(key, ports) == \A p \in Ports : Meant(parse_ports(Value(b, key, None)), p) <=> Meant(ports, p)
      d == parse_device(Value(b, "device", None))
  IN  /\ parse_application_server(b["applicationServer"]) = s.application_server
      /\ same("devicePorts", s.device_ports) /\ same("applicationServerPorts", s.application_server_ports)
      /\ b["qosProfile"] = s.qos_profile /\ b["duration"] = s.duration
      /\ d # None => s.device # None /\ \A f \in DOMAIN d : d[f] \in {None, s.device[f]}

\* What a client reads in the answer to a creation, a read or an extension is the
\* session it asked for, as session_to_json wrote it.
AnswerDescribesSession ==
  stage = "reply" /\ reply.body # None =>
    Describes(reply.body, IF incoming.message_type = "qod_create_session" THEN session
                          ELSE stored[extract_session_id(incoming)])
=============================================================================
