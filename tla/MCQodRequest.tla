---------------------------- MODULE MCQodRequest ----------------------------
(* The requests of the model: one that is served, with one aspect varied at a *)
(* time and that aspect in all its combinations.                              *)
EXTENDS RestApi

Rates == {"rate"}
Rated(gbr) == IF gbr THEN "rate" ELSE None
Mapping(prio, gbr) ==
  [priority_level |-> prio, is_gbr |-> gbr,
   max_downlink_rate |-> Rated(gbr), max_uplink_rate |-> Rated(gbr),
   guaranteed_downlink_rate |-> Rated(gbr), guaranteed_uplink_rate |-> Rated(gbr)]

\* Three of the ten profiles: audio, video and best effort; and two that were registered
\* later, without a maximal duration, the second with a mapping that is not valid.
Valid    == "voice" :> Mapping(2, TRUE) @@ "video" :> Mapping(4, TRUE) @@ "data" :> Mapping(9, FALSE)
              @@ "custom" :> Mapping(16, FALSE)
Mappings == Valid @@ "faulty" :> Mapping(0, FALSE)
Accepted == {Valid[profile] : profile \in DOMAIN Valid}
MaxDurations == "voice" :> 2 @@ "video" :> 3 @@ "data" :> 4

\* A key with each of these values, or without the key.
Maybe(key, V) == {NoKeys} \cup {key :> v : v \in V}

Ipv4Objects ==
  {a @@ b @@ c : a \in Maybe("publicAddress", {"pub", "no address", ""}),
                 b \in Maybe("privateAddress", {"priv"}), c \in Maybe("publicPort", {1})}

\* A compressed IPv6 address such as 2001:db8::1 does not match the southbound pattern.
DeviceObjects ==
  {None} \cup
  {a @@ b @@ c @@ d : a \in Maybe("phoneNumber", {"E.164", "not E.164"}),
                      b \in Maybe("networkAccessIdentifier", {"nai"}),
                      c \in Maybe("ipv4Address", Ipv4Objects),
                      d \in Maybe("ipv6Address", {"full", "compressed"})}

PortObjects ==
  {p @@ r : p \in Maybe("ports", {<<>>, <<1>>, <<1, 3>>}),
            r \in Maybe("ranges", {<<>>, <<<<1, 2>>>>, <<<<2, 2>>>>, <<<<0, 1>>, <<3, 4>>>>, <<<<2, 1>>>>})}

Device == "ipv4Address" :> (("publicAddress" :> "pub") @@ ("publicPort" :> 1))
Base   == ("device" :> Device) @@ ("applicationServer" :> ("ipv4Address" :> "srv"))
            @@ ("qosProfile" :> "voice") @@ ("duration" :> 1)
Without(b, key) == [k \in DOMAIN b \ {key} |-> b[k]]

ByDevice  == {d @@ Without(Base, "device") : d \in Maybe("device", DeviceObjects)}
ByPorts   == {a @@ b @@ Base : a \in Maybe("devicePorts", PortObjects \cup {None}),
                               b \in Maybe("applicationServerPorts", PortObjects)}
ByServer  == {s @@ Without(Base, "applicationServer") :
                s \in Maybe("applicationServer",
                        {a @@ b : a \in Maybe("ipv4Address", {"srv"}), b \in Maybe("ipv6Address", {"srv6"})})}
ByProfile == {p @@ d @@ Without(Without(Base, "qosProfile"), "duration") :
                p \in Maybe("qosProfile", {"voice", "video", "data", "custom", "faulty", "other"}), d \in Maybe("duration", -1..5)}
BySink    == {s @@ c @@ Base : s \in Maybe("sink", {"http", "https"}),
                               c \in Maybe("sinkCredential", {"usable", "unusable"})}

AllRequests ==
  [three_legged : BOOLEAN, body : ByDevice \cup ByServer \cup ByProfile \cup BySink]
    \cup [three_legged : {FALSE}, body : ByPorts]

-----------------------------------------------------------------------------
\* The other operations: paths and methods of the API and beside it, one header and
\* one query parameter, the names of which may be like the keys the handlers read.
DecodeSegments == "sessions" :> "sessions" @@ "retrieve-sessions" :> "retrieve-sessions" @@ "s1" :> "s1" @@ "s%31" :> "s1" @@ "s2" :> "s2" @@ "extend" :> "extend"
LowerNames == "x-correlator" :> "x-correlator" @@ "X-Correlator" :> "x-correlator"
                @@ "sessionId" :> "sessionid" @@ "session_id" :> "session_id"
QueryKeys  == "sessionId" :> "query.sessionId"

Paths == {<<"sessions">>, <<"retrieve-sessions">>} \cup {<<"sessions", i>> : i \in {"s1", "s%31", "s2"}}
           \cup {<<"sessions", i, "extend">> : i \in {"s1", "s%31", "s2"}}

Http(methods, paths, headers, queries) ==
  [transport : {"http"}, consumer : {"c1"}, method : methods, path : paths, headers : headers, query : queries]

Own4(private) == [phone_number |-> None, network_access_identifier |-> None, ipv6_address |-> None,
                  ipv4_address |-> [public_address |-> "pub", private_address |-> private, public_port |-> 1]]

Server4 == [ipv4_address |-> "srv", ipv6_address |-> None]
Stored1 ==
  {None} \cup
  [consumer : {"c1", "c2"}, status : {"REQUESTED", "AVAILABLE", "UNAVAILABLE"}, qos_profile : {"voice"},
   duration : {1, 2}, device : {None, Own4(None)}, device_response : {None}, application_server : {Server4},
   device_ports : {None}, application_server_ports : {None}]
Shown   == [consumer |-> "c1", status |-> "AVAILABLE", qos_profile |-> "voice", duration |-> 1,
            device |-> Own4("priv"), device_response |-> Own4("priv"), application_server |-> Server4,
            device_ports |-> [ranges |-> <<<<1, 2>>>>, ports |-> <<>>],
            application_server_ports |-> [ranges |-> <<>>, ports |-> <<>>]]
Stores  == {"s1" :> s : s \in Stored1 \cup {Shown}}
TwoLeggedIds == {"c3"}

Bodies == {None, Unparseable, NoKeys, "device" :> Device, "device" :> ("phoneNumber" :> "E.164")}
            \cup {"requestedAdditionalDuration" :> n : n \in 0..2}

OnSessions ==
  [call : Http({"GET", "POST", "DELETE"}, Paths,
               {NoKeys} \cup {h :> "s2" : h \in DOMAIN LowerNames}, Maybe("sessionId", {"s2"})),
   request : [three_legged : BOOLEAN, body : Bodies], stored : Stores]

ByMessage ==
  [call : [transport : {"message"}, consumer : {"c1"},
           message_type : {"qod_get_session", "qod_delete_session", "qod_extend_session", "qod_renew_session"},
           metadata : {a @@ b : a \in Maybe("sessionId", {"s1", ""}), b \in Maybe("session_id", {"s1"})}],
   request : [three_legged : {FALSE}, body : {"requestedAdditionalDuration" :> 1}], stored : Stores]

Creations ==
  [call : Http({"POST"}, {<<"sessions">>}, {NoKeys}, {NoKeys}),
   request : AllRequests \cup [three_legged : {FALSE}, body : {Unparseable}], stored : {"s1" :> None}]

\* Creations by a consumer that is shown its device, too.
ToTwoLegged(C) == C \cup {[c EXCEPT !.call.consumer = "c3"] : c \in C}

AllCalls == OnSessions \cup ByMessage \cup ToTwoLegged(Creations)
=============================================================================
