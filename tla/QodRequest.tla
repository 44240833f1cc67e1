----------------------------- MODULE QodRequest -----------------------------
(***************************************************************************)
(* The way of one create-session request through the program: QodHandler   *)
(* parses and validates it, QodSessionManager turns it into a session and  *)
(* a message for the southbound side, QodPcfHandler parses that message,   *)
(* builds the app session context and validates it before the PCF sees it. *)
(* The components agree on a format only by convention, so each conversion *)
(* is modelled by what it writes and what it reads.                        *)
(*                                                                         *)
(* A JSON object is a function from the keys that are present; an absent   *)
(* optional is None.  The inputs have the types of the API's schema.       *)
(* Sessions that exist already, and what happens to the session when the   *)
(* PCF has answered, are the subject of QodSession and PcfSession.         *)
(***************************************************************************)
EXTENDS Integers, Sequences, FiniteSets

CONSTANTS
  Requests,      \* the bodies of POST /sessions under consideration
  Supi,          \* the SUPI resolve_device may find
  ValidIpv4, ValidIpv6,   \* the addresses the southbound patterns accept
  ValidRates,    \* the strings that are a TS 29.571 BitRate
  qos_profile_mappings_,  \* profile -> its QosProfileMapping
  ValidMappings, \* the mappings that QosProfileMapper accepts after reading them back
  qos_profile_max_durations, max_session_duration, min_session_duration,
  Ports,         \* the port numbers packets are drawn from
  Unparseable,   \* a body that is not JSON
  None           \* JSON null, an absent optional, an empty body

ASSUME RequestAssumption ==
  /\ min_session_duration \in Nat
  /\ Ports \subseteq Nat
  \* as in initialize_default_mappings: priorities are PRIO_1 to PRIO_16, rates are
  \* well-formed; a mapping that register_qos_profile added may fail the validation
  /\ \A profile \in DOMAIN qos_profile_mappings_ :
       LET m == qos_profile_mappings_[profile]
       IN  m \in ValidMappings =>
           /\ m # None
           /\ m.priority_level \in {None} \cup 1..16
           /\ {m.max_downlink_rate, m.max_uplink_rate, m.guaranteed_downlink_rate, m.guaranteed_uplink_rate}
                \subseteq {None} \cup ValidRates

VARIABLES
  stage,     \* who holds the request
  request,   \* the body of the HTTP request and the kind of its token
  session,   \* QodSession of AF core
  message,   \* the payload of pcf_create_qod_session
  context,   \* the AppSessionContext
  answer     \* status and code of the answer that ended the request

vars == <<stage, request, session, message, context, answer>>

\* TLC's operators on functions, spelled out: the proofs expand them.
d :> e == [x \in {d} |-> e]
f @@ g == [x \in DOMAIN f \cup DOMAIN g |-> IF x \in DOMAIN f THEN f[x] ELSE g[x]]

Has(j, key)        == key \in DOMAIN j
Value(j, key, dflt) == IF Has(j, key) THEN j[key] ELSE dflt
NoKeys             == [k \in {} |-> None]
Optional(key, v)   == IF v = None THEN NoKeys ELSE key :> v

\* The answer of the first check that fails, None if all pass.
FirstError(checks) ==
  LET bad == {i \in DOMAIN checks : checks[i].fails}
  IN  IF bad = {} THEN None
      ELSE checks[CHOOSE i \in bad : \A k \in bad : i <= k].answer

Error(status, code) == [status |-> status, code |-> code]

-----------------------------------------------------------------------------
(* QodHandler *)

\* parse_device: every identifier is optional.
parse_device(j) ==
  IF j = None THEN None
  ELSE [phone_number |-> Value(j, "phoneNumber", None),
        network_access_identifier |-> Value(j, "networkAccessIdentifier", None),
        ipv4_address |-> IF ~Has(j, "ipv4Address") THEN None
                         ELSE [public_address  |-> Value(j["ipv4Address"], "publicAddress", ""),
                               private_address |-> Value(j["ipv4Address"], "privateAddress", None),
                               public_port     |-> Value(j["ipv4Address"], "publicPort", None)],
        ipv6_address |-> Value(j, "ipv6Address", None)]

parse_application_server(j) ==
  [ipv4_address |-> Value(j, "ipv4Address", None), ipv6_address |-> Value(j, "ipv6Address", None)]

parse_ports(j) ==
  IF j = None THEN None
  ELSE [ranges |-> Value(j, "ranges", <<>>), ports |-> Value(j, "ports", <<>>)]

\* A phone number is modelled by whether it is E.164.
validate_device(device, three_legged) ==
  \/ three_legged /\ device # None
  \/ ~three_legged /\ device = None
  \/ /\ device # None
     /\ \/ device.phone_number = "not E.164"
        \/ /\ device.ipv4_address # None
           /\ \/ device.ipv4_address.public_address = ""
              \/ device.ipv4_address.private_address = None /\ device.ipv4_address.public_port = None
        \/ \A f \in DOMAIN device : device[f] = None

validate_application_server(server) == server.ipv4_address = None /\ server.ipv6_address = None

\* Port is unsigned and 16 bits wide: only an inverted range can fail.
validate_ports(ports) ==
  ports # None /\ \E i \in DOMAIN ports.ranges : ports.ranges[i][1] > ports.ranges[i][2]

validate_duration(duration) == duration < 1

\* A credential is modelled by the outcome of the checks on its fields.
validate_sink(sink, credential) == sink # "https" \/ credential = "unusable"

\* The checks of handle_create_session, in their order.
CreateChecks(r) ==
  LET b == r.body
      device == parse_device(Value(b, "device", None))
      device_ports == parse_ports(Value(b, "devicePorts", None))
      server_ports == parse_ports(Value(b, "applicationServerPorts", None))
  IN  << [fails  |-> Has(b, "device") /\ validate_device(device, r.three_legged),
          answer |-> Error(422, IF r.three_legged THEN "UNNECESSARY_IDENTIFIER" ELSE "MISSING_IDENTIFIER")],
         [fails  |-> ~Has(b, "device") /\ ~r.three_legged, answer |-> Error(422, "MISSING_IDENTIFIER")],
         [fails  |-> ~Has(b, "applicationServer"), answer |-> Error(400, "INVALID_ARGUMENT")],
         [fails  |-> validate_application_server(parse_application_server(Value(b, "applicationServer", NoKeys))),
          answer |-> Error(400, "INVALID_ARGUMENT")],
         [fails  |-> validate_ports(device_ports) \/ validate_ports(server_ports),
          answer |-> Error(400, "OUT_OF_RANGE")],
         [fails  |-> ~Has(b, "qosProfile") \/ ~Has(b, "duration"), answer |-> Error(400, "INVALID_ARGUMENT")],
         [fails  |-> validate_duration(Value(b, "duration", 1)), answer |-> Error(400, "DURATION_OUT_OF_RANGE")],
         [fails  |-> Has(b, "sink") /\ validate_sink(Value(b, "sink", None), Value(b, "sinkCredential", None)),
          answer |-> Error(400, "INVALID_SINK")] >>

CreateSessionRequest(b) ==
  [device |-> parse_device(Value(b, "device", None)),
   application_server |-> parse_application_server(b["applicationServer"]),
   device_ports |-> parse_ports(Value(b, "devicePorts", None)),
   application_server_ports |-> parse_ports(Value(b, "applicationServerPorts", None)),
   qos_profile |-> b["qosProfile"], duration |-> b["duration"]]

Finish(a) == stage' = "answered" /\ answer' = a

handle_create_session ==
  /\ stage = "QodHandler"
  /\ LET error == IF request.body \in {None, Unparseable} THEN Error(400, "INVALID_ARGUMENT")
                  ELSE FirstError(CreateChecks(request))
     IN  IF error # None
         THEN Finish(error) /\ UNCHANGED session
         ELSE /\ stage' = "QodSessionManager" /\ UNCHANGED answer
              /\ session' = CreateSessionRequest(request.body)
  /\ UNCHANGED <<request, message, context>>

-----------------------------------------------------------------------------
(* QodSessionManager *)

validate_qos_profile(profile) == profile \in DOMAIN qos_profile_mappings_
get_max_duration_for_profile(profile) == Value(qos_profile_max_durations, profile, max_session_duration)

\* Without a session the handler answers 400 INVALID_ARGUMENT, whatever the reason.
create_session ==
  /\ stage = "QodSessionManager"
  /\ IF /\ validate_qos_profile(session.qos_profile)
        /\ session.duration <= get_max_duration_for_profile(session.qos_profile)
        /\ session.duration >= min_session_duration
     THEN /\ \E supi \in {None} \cup (IF session.device = None THEN {} ELSE {Supi}) :
               session' = session @@ [ue_supi |-> supi,
                                      qos_profile_mapping |-> qos_profile_mappings_[session.qos_profile]]
          /\ stage' = "apply_session_to_pcf" /\ UNCHANGED answer
     ELSE Finish(Error(400, "INVALID_ARGUMENT")) /\ UNCHANGED session
  /\ UNCHANGED <<request, message, context>>

\* Faulty variant: the private address, if there is one, takes the public one's place.
convert_device_to_pcf_private(device, supi) ==
  Optional("gpsi", device.phone_number) @@ Optional("ipv6Address", device.ipv6_address)
    @@ (IF device.ipv4_address = None THEN NoKeys
        ELSE "ipv4Address" :> ("publicAddress" :> IF device.ipv4_address.private_address # None
                                                  THEN device.ipv4_address.private_address
                                                  ELSE device.ipv4_address.public_address))

\* The network access identifier is not passed on; the key "supi" is the SUPI.
convert_device_to_pcf(device, supi) ==
  Optional("supi", supi) @@ Optional("gpsi", device.phone_number)
    @@ Optional("ipv6Address", device.ipv6_address)
    @@ (IF device.ipv4_address = None THEN NoKeys
        ELSE "ipv4Address" :> (("publicAddress" :> device.ipv4_address.public_address)
                                 @@ Optional("privateAddress", device.ipv4_address.private_address)
                                 @@ Optional("publicPort", device.ipv4_address.public_port)))

\* An object nothing was assigned to is a JSON null.
Json(j) == IF DOMAIN j = {} THEN None ELSE j

NonEmpty(key, s) == IF s = <<>> THEN NoKeys ELSE key :> s

\* Ranges go under "port_ranges"; the server's ports are not sent.
PortsForPcf(ports) == NonEmpty("port_ranges", ports.ranges) @@ NonEmpty("ports", ports.ports)

build_pcf_request(s) ==
  LET ports == IF s.device_ports = None THEN NoKeys ELSE PortsForPcf(s.device_ports)
  IN  ("qos_profile" :> s.qos_profile) @@ ("qos_profile_mapping" :> s.qos_profile_mapping)
        @@ (IF s.device = None THEN Optional("ue_supi", s.ue_supi)
            ELSE "device" :> Json(convert_device_to_pcf(s.device, s.ue_supi)))
        @@ ("application_server" :> (Optional("ipv4Address", s.application_server.ipv4_address)
                                       @@ Optional("ipv6Address", s.application_server.ipv6_address)))
        @@ Optional("device_ports", Json(ports))

apply_session_to_pcf ==
  /\ stage = "apply_session_to_pcf"
  /\ message' = build_pcf_request(session)
  /\ stage' = "QodPcfHandler"
  /\ UNCHANGED <<request, session, context, answer>>

-----------------------------------------------------------------------------
(* QodPcfHandler: parsing *)

\* "gpsi" becomes the phone number, "supi" the network access identifier.
ParsePcfDevice(j) ==
  IF j = None THEN None
  ELSE [phone_number |-> Value(j, "gpsi", None),
        network_access_identifier |-> Value(j, "supi", None),
        ipv4_address |-> IF ~Has(j, "ipv4Address") THEN None
                         ELSE [public_address  |-> Value(j["ipv4Address"], "publicAddress", ""),
                               private_address |-> Value(j["ipv4Address"], "privateAddress", None)],
        ipv6_address |-> Value(j, "ipv6Address", None)]

\* try_deserialize_qos_mapping and validate_qos_mapping of the common library: what
\* serialize_qos_mapping wrote is read back as it was, and accepted or not.
validate_qos_mapping(m) == m \in ValidMappings

\* A message without a mapping is not refused for it.
MappingRefused(m) ==
  Value(m, "qos_profile_mapping", None) # None /\ ~validate_qos_mapping(m["qos_profile_mapping"])

\* The keys read with json.at: without one of them the request is answered 400.
RequiredKeys == {"device", "application_server", "qos_profile"}

ParsedSession(m) ==
  [device |-> ParsePcfDevice(m["device"]),
   application_server |-> parse_application_server(m["application_server"]),
   device_ports |-> parse_ports(Value(m, "device_ports", None)),
   application_server_ports |-> parse_ports(Value(m, "application_server_ports", None)),
   qos_profile |-> m["qos_profile"],
   ue_supi |-> Value(m, "ue_supi", None),
   mapping |-> Value(m, "qos_profile_mapping", None)]

-----------------------------------------------------------------------------
(* QodPcfHandler: flows *)

AnyPort == <<>>   \* the empty port spec

\* A port spec is "p" or "from-to", here <<from, to>>; a range of one port and that
\* port have the same text.
collect_port_specs(ports) == [i \in DOMAIN ports.ports |-> <<ports.ports[i], ports.ports[i]>>] \o ports.ranges

PortSpecs(ports) == IF ports = None THEN <<>> ELSE collect_port_specs(ports)
OrAny(specs)     == IF specs = <<>> THEN <<AnyPort>> ELSE specs

format_flow_description(direction, src_ip, src_port, dst_ip, dst_port) ==
  [direction |-> direction, src |-> src_ip, sport |-> src_port, dst |-> dst_ip, dport |-> dst_port]

\* The sub-component with a flow number: one flow description.
SubComponent(f, src_ip, src_port, dst_ip, dst_port) ==
  [fNum |-> f, fStatus |-> "ENABLED", flowUsage |-> "NO_INFO",
   fDescs |-> <<format_flow_description("out", src_ip, src_port, dst_ip, dst_port)>>]

\* The device's private address goes before its public one, IPv4 before IPv6.
SrcIp(s) ==
  IF s.device # None /\ s.device.ipv4_address # None
  THEN IF s.device.ipv4_address.private_address # None
       THEN s.device.ipv4_address.private_address ELSE s.device.ipv4_address.public_address
  ELSE IF s.device # None /\ s.device.ipv6_address # None THEN s.device.ipv6_address ELSE "any"

DstIp(s) ==
  IF s.application_server.ipv4_address # None THEN s.application_server.ipv4_address
  ELSE IF s.application_server.ipv6_address # None THEN s.application_server.ipv6_address ELSE "any"

\* Faulty variant: the i-th device port is paired with the i-th server port only.
map_ports_to_media_subcomponents_zip(s) ==
  LET S == OrAny(PortSpecs(s.device_ports))
      D == OrAny(PortSpecs(s.application_server_ports))
      n == IF Len(S) < Len(D) THEN Len(S) ELSE Len(D)
  IN  [f \in 1 .. 2 * n |->
         LET k == (f + 1) \div 2
         IN  IF f % 2 = 1 THEN SubComponent(f, SrcIp(s), S[k], DstIp(s), D[k])
             ELSE SubComponent(f, DstIp(s), D[k], SrcIp(s), S[k])]

\* The sub-components by flow number: for every pair of a device and a server port
\* spec, the latter varying faster, an uplink one and then its mirror image, both
\* with the direction "out".
map_ports_to_media_subcomponents(s) ==
  LET S == OrAny(PortSpecs(s.device_ports))
      D == OrAny(PortSpecs(s.application_server_ports))
  IN  [f \in 1 .. 2 * Len(S) * Len(D) |->
         LET k  == (f - 1) \div 2
             sp == S[1 + (k \div Len(D))]
             dp == D[1 + (k % Len(D))]
         IN  IF f % 2 = 1 THEN SubComponent(f, SrcIp(s), sp, DstIp(s), dp)
             ELSE SubComponent(f, DstIp(s), dp, SrcIp(s), sp)]

-----------------------------------------------------------------------------
(* QodPcfHandler: the app session context *)

MediaType(profile) ==
  IF profile \in {"voice", "QOS_E"} THEN "AUDIO"
  ELSE IF profile \in {"video", "QOS_S"} THEN "VIDEO" ELSE "APPLICATION"

\* Rates: maxima of every profile, guarantees only of GBR ones.
Bitrates(m) ==
  Optional("marBwDl", m.max_downlink_rate) @@ Optional("marBwUl", m.max_uplink_rate)
    @@ Optional("maxSuppBwDl", m.max_downlink_rate) @@ Optional("maxSuppBwUl", m.max_uplink_rate)
    @@ (IF ~m.is_gbr THEN NoKeys
        ELSE Optional("mirBwDl", m.guaranteed_downlink_rate) @@ Optional("mirBwUl", m.guaranteed_uplink_rate)
               @@ Optional("minDesBwDl", m.guaranteed_downlink_rate)
               @@ Optional("minDesBwUl", m.guaranteed_uplink_rate))

\* Latency, loss and preemption are constants chosen by 5QI and priority that nothing
\* reads again; they are left out.
build_media_components(s) ==
  1 :> [medCompN |-> 1, fStatus |-> "ENABLED", medType |-> MediaType(s.qos_profile),
        resPrio |-> s.mapping.priority_level, bitrates |-> Bitrates(s.mapping),
        medSubComps |-> map_ports_to_media_subcomponents(s)]

build_subscription_info == [events |-> <<"QOS_NOTIF">>]

\* Faulty variant: every address the device has is written.
build_app_session_context_all(s) ==
  ("medComponents" :> build_media_components(s)) @@ ("evSubsc" :> build_subscription_info)
    @@ ("notifUri" :> "url") @@ ("suppFeat" :> "1") @@ ("servInfStatus" :> "PRELIMINARY")
    @@ Optional("supi", s.ue_supi)
    @@ (IF s.device = None \/ s.device.ipv4_address = None THEN NoKeys
        ELSE "ueIpv4" :> s.device.ipv4_address.public_address)
    @@ (IF s.device = None THEN NoKeys ELSE Optional("ueIpv6", s.device.ipv6_address))

\* One identifier of the UE: its public IPv4 address, else its IPv6 address, else a
\* GPSI, the phone number or the network access identifier.
build_app_session_context(s) ==
  ("medComponents" :> build_media_components(s)) @@ ("evSubsc" :> build_subscription_info)
    @@ ("notifUri" :> "url") @@ ("suppFeat" :> "1") @@ ("servInfStatus" :> "PRELIMINARY")
    @@ Optional("supi", s.ue_supi)
    @@ (IF s.device = None THEN NoKeys
        ELSE IF s.device.ipv4_address # None THEN "ueIpv4" :> s.device.ipv4_address.public_address
        ELSE IF s.device.ipv6_address # None THEN "ueIpv6" :> s.device.ipv6_address
        ELSE IF s.device.phone_number # None THEN "gpsi" :> s.device.phone_number
        ELSE Optional("gpsi", s.device.network_access_identifier))

-----------------------------------------------------------------------------
(* helpers.cpp: the schema of the context, as far as it applies to one *)

validate_required_fields(j, fields) == fields \subseteq DOMAIN j
validate_one_of_required(j, fields) == Cardinality({f \in fields : Has(j, f)}) = 1

is_valid_ipv4(a)    == a \in ValidIpv4
is_valid_ipv6(a)    == a \in ValidIpv6
is_valid_bitrate(r) == r \in ValidRates
is_valid_flow_status(s) == s \in {"ENABLED-UPLINK", "ENABLED-DOWNLINK", "ENABLED", "DISABLED", "REMOVED"}
is_valid_flow_usage(u)  == u \in {"NO_INFO", "RTCP", "AF_SIGNALLING"}
is_valid_media_type(t)  ==
  t \in {"AUDIO", "VIDEO", "DATA", "APPLICATION", "CONTROL", "TEXT", "MESSAGE", "OTHER"}
is_valid_reservation_priority(p) == p \in 1..16    \* "PRIO_1" to "PRIO_16"
is_valid_service_info_status(s)  == s \in {"FINAL", "PRELIMINARY"}

validate_media_sub_component(c) ==
  Len(c.fDescs) \in 1..2 /\ is_valid_flow_status(c.fStatus) /\ is_valid_flow_usage(c.flowUsage)

validate_media_component(c) ==
  /\ is_valid_media_type(c.medType) /\ is_valid_flow_status(c.fStatus)
  /\ c.resPrio = None \/ is_valid_reservation_priority(c.resPrio)
  /\ DOMAIN c.medSubComps # {}
  /\ \A f \in DOMAIN c.medSubComps : validate_media_sub_component(c.medSubComps[f])
  /\ \A f \in DOMAIN c.bitrates : is_valid_bitrate(c.bitrates[f])

\* Of the enumeration of events the one that is used.
validate_af_event_subscription(e) == e = "QOS_NOTIF"

validate_events_subscription_req_data(e) ==
  Len(e.events) >= 1 /\ \A i \in DOMAIN e.events : validate_af_event_subscription(e.events[i])

validate_app_session_context_req_data(c) ==
  /\ validate_required_fields(c, {"notifUri", "suppFeat"})
  /\ validate_one_of_required(c, {"ueIpv4", "ueIpv6", "ueMac"})
  /\ Has(c, "ueIpv4") => is_valid_ipv4(c["ueIpv4"])
  /\ Has(c, "ueIpv6") => is_valid_ipv6(c["ueIpv6"])
  /\ is_valid_service_info_status(c["servInfStatus"])
  /\ validate_events_subscription_req_data(c["evSubsc"])
  /\ \A n \in DOMAIN c["medComponents"] : validate_media_component(c["medComponents"][n])

\* The context is its ascReqData: the other two parts are not sent.
validate_app_session_context(c) == validate_app_session_context_req_data(c)

\* The creation up to the exchange with the PCF.  AF core makes an UNAVAILABLE
\* session of a 400 and answers its client 201.
handle_qod_create_pcf_session ==
  /\ stage = "QodPcfHandler"
  /\ IF ~(RequiredKeys \subseteq DOMAIN message) \/ MappingRefused(message)
     THEN Finish(Error(400, "bad_request")) /\ UNCHANGED context
     ELSE /\ context' = build_app_session_context(ParsedSession(message))
          /\ IF validate_app_session_context(context')
             THEN stage' = "sent" /\ UNCHANGED answer
             ELSE Finish(Error(400, "pcf_request_invalid"))
  /\ UNCHANGED <<request, session, message>>

-----------------------------------------------------------------------------
Init ==
  /\ stage = "QodHandler"
  /\ request \in Requests
  /\ session = None /\ message = None /\ context = None /\ answer = None

Next == handle_create_session \/ create_session \/ apply_session_to_pcf \/ handle_qod_create_pcf_session

Spec == Init /\ [][Next]_vars

-----------------------------------------------------------------------------
(* Properties *)

\* A packet of the session's traffic, seen from the device.
Packets == [uplink : BOOLEAN, device : Ports, server : Ports]

InSpec(port, spec) == spec = AnyPort \/ (spec[1] <= port /\ port <= spec[2])

\* A flow names a packet's source and destination.  The keyword in front of them, the
\* flow's direction, is not looked at: see FlowsNameDirection.
Admits(flow, src, dst, p) ==
  IF p.uplink
  THEN flow.src = src /\ flow.dst = dst /\ InSpec(p.device, flow.sport) /\ InSpec(p.server, flow.dport)
  ELSE flow.src = dst /\ flow.dst = src /\ InSpec(p.server, flow.sport) /\ InSpec(p.device, flow.dport)

\* What a ports specification means: nothing named means every port.
Meant(ports, p) ==
  \/ ports = None
  \/ ports.ports = <<>> /\ ports.ranges = <<>>
  \/ \E i \in DOMAIN ports.ports : ports.ports[i] = p
  \/ \E i \in DOMAIN ports.ranges : ports.ranges[i][1] <= p /\ p <= ports.ranges[i][2]

Wanted(s)  == {p \in Packets : Meant(s.device_ports, p.device) /\ Meant(s.application_server_ports, p.server)}
Flows      == context["medComponents"][1].medSubComps
Admitted(flows, s) == {p \in Packets : \E f \in DOMAIN flows : Admits(flows[f].fDescs[1], SrcIp(s), DstIp(s), p)}

\* Between two ends with different addresses the flows admit what the ports mean.
Exact(flows, s) == SrcIp(s) # DstIp(s) => Admitted(flows, s) = Wanted(s)

\* What of a session the message for QodPcfHandler says, as QodPcfHandler understands
\* it: its two ends and the device's single ports.  The device's port ranges go under a
\* key that is not read, the server's ports are not sent (see FlowsCoverRequest).
Carried(s) ==
  [device |-> s.device, application_server |-> s.application_server,
   device_ports |-> IF s.device_ports = None THEN None ELSE [ranges |-> <<>>, ports |-> s.device_ports.ports],
   application_server_ports |-> None]

\* The sources and destinations in the flows are those of the session's traffic.
\* map_ports_to_media_subcomponents, given a session, names those of exactly the
\* packets its ports mean, both ways and for all mixes of ports and ranges on the two
\* sides; and what is sent to the PCF, after the session was written as JSON by AF core
\* and read by QodPcfHandler, names those of exactly the packets between the client's
\* device and server on the single ports the client gave for the device.
FlowsMeanPorts ==
  /\ stage = "apply_session_to_pcf" => Exact(map_ports_to_media_subcomponents(session), session)
  /\ stage = "sent" => Exact(Flows, Carried(session))

\* The conversions of AF core and of QodPcfHandler, together, keep the device: the
\* one identifier of the UE in the context is an address the client named its device
\* by, and the flows end at an address of that device and at the client's server.
ContextNamesDevice ==
  stage = "sent" =>
    LET d   == session.device
        own == {d.ipv6_address} \cup
               (IF d.ipv4_address = None THEN {} ELSE {d.ipv4_address.public_address, d.ipv4_address.private_address})
    IN  /\ Has(context, "ueIpv4") => context["ueIpv4"] = d.ipv4_address.public_address
        /\ Has(context, "ueIpv6") => context["ueIpv6"] = d.ipv6_address
        /\ \A f \in DOMAIN Flows : \E a \in own \ {None} :
             {Flows[f].fDescs[1].src, Flows[f].fDescs[1].dst} = {a, DstIp(session)}

\* What the northbound validation lets through none of the southbound validations
\* refuses, for a device named by well-formed addresses and a profile with a mapping
\* that QosProfileMapper accepts: the message has the keys QodPcfHandler reads, and the
\* context built for it has exactly one identifier and a valid media component.
AcceptedIsSent ==
  stage = "answered" /\ answer.code \in {"bad_request", "pcf_request_invalid"} =>
    LET d == session.device
    IN  ~ /\ d # None /\ (d.ipv4_address # None \/ d.ipv6_address # None)
          /\ d.ipv4_address # None => d.ipv4_address.public_address \in ValidIpv4
          /\ d.ipv6_address # None => d.ipv6_address \in ValidIpv6
          /\ session.qos_profile_mapping \in ValidMappings

\* The flows sent to the PCF admit every packet of the ports the client asked for:
\* "complete flow descriptions (IPs + ports)" (build_media_components).
FlowsCoverRequest ==
  stage = "sent" => Wanted(session) \subseteq Admitted(Flows, session)

\* A statement that the program does not meet, and no run checks: a flow from the
\* device is "out" (uplink), one to the device "in" (downlink), as
\* flow_description_utils.h:15-16 defines them and build_media_components' comment
\* says; SubComponent writes "out" for both.
FlowsNameDirection ==
  stage = "sent" =>
    \A f \in DOMAIN Flows :
      LET flow == Flows[f].fDescs[1]
      IN  SrcIp(session) # DstIp(session) =>
            flow.direction = IF flow.src = SrcIp(session) THEN "out" ELSE "in"
=============================================================================
