---------------------------- MODULE RestApi_proofs ----------------------------
(***************************************************************************)
(* Proofs about the way of a request through the program (QodRequest and   *)
(* RestApi), for all requests of the API's types.                          *)
(*                                                                         *)
(* CreationInv follows a creation from stage to stage: the session is the  *)
(* one parsed from the body, the message the one written for the session,  *)
(* the context the one built for what was read of the message.  From it    *)
(* follow FlowsMeanPorts, ContextNamesDevice and AcceptedIsSent, each by a *)
(* lemma about the conversions.  AnswerInv follows any request: the        *)
(* handler at work is that of the operation its method and path mean, and  *)
(* nothing has happened before its reply.  DescribeInv adds that the store *)
(* holds well-made sessions, for what is written of them in an answer.     *)
(***************************************************************************)
EXTENDS RestApi, SequenceTheorems, WellFoundedInduction, FiniteSetTheorems, TLAPS

\* parse_ports makes sequences of ports and of pairs of ports.
PortsSpec == [ranges : Seq(Nat \X Nat), ports : Seq(Nat)]

\* Division with remainder.
LEMMA Division ==
  ASSUME NEW k \in Nat, NEW m \in Nat, m > 0
  PROVE  k \div m \in Nat /\ k % m \in 0 .. m - 1 /\ k = m * (k \div m) + (k % m)
  OBVIOUS

\* Quotient and remainder are the only ones.
LEMMA DivisionUnique ==
  ASSUME NEW m \in Nat, NEW q \in Nat, NEW r \in 0 .. m - 1
  PROVE  (m * q + r) \div m = q /\ (m * q + r) % m = r
<1> DEFINE k == m * q + r  a == k \div m  b == k % m
<1>1. k \in Nat /\ m > 0
  OBVIOUS
<1>2. a \in Nat /\ b \in 0 .. m - 1 /\ k = m * a + b
  BY <1>1, Division
<1> HIDE DEF k, a, b
<1>3. m * q + r = m * a + b
  BY <1>2 DEF k
<1>4. m * (q - a) = b - r
  BY <1>2, <1>3
<1>5. ~(q - a >= 1)
  <2> SUFFICES ASSUME q - a >= 1 PROVE FALSE
    OBVIOUS
  <2>1. m * (q - a) >= m
    BY <1>2
  <2> QED
    BY <1>2, <1>4, <2>1
<1>6. ~(q - a <= -1)
  <2> SUFFICES ASSUME q - a <= -1 PROVE FALSE
    OBVIOUS
  <2>1. m * (q - a) <= -m
    BY <1>2
  <2> QED
    BY <1>2, <1>4, <2>1
<1>7. a = q
  BY <1>2, <1>5, <1>6
<1> QED
  BY <1>2, <1>3, <1>7 DEF k, a, b

\* The device and the server port spec of the flow with number f, of m of the latter.
DeviceSpec(f, m) == 1 + (((f - 1) \div 2) \div m)
ServerSpec(f, m) == 1 + (((f - 1) \div 2) % m)

\* The pairs of a device and a server port spec are numbered without gaps.
LEMMA PairNumber ==
  ASSUME NEW n \in Nat, NEW m \in Nat, NEW f \in 1 .. 2 * n * m
  PROVE  DeviceSpec(f, m) \in 1 .. n /\ ServerSpec(f, m) \in 1 .. m
  BY DEF DeviceSpec, ServerSpec

\* And every pair has an odd and an even number.
LEMMA NumberOfPair ==
  ASSUME NEW n \in Nat, NEW m \in Nat, NEW i \in 1 .. n, NEW j \in 1 .. m, NEW b \in {1, 2}
  PROVE  \E f \in 1 .. 2 * n * m :
           f % 2 = b % 2 /\ DeviceSpec(f, m) = i /\ ServerSpec(f, m) = j
<1> DEFINE k == m * (i - 1) + (j - 1)
<1>1. k \in Nat /\ k \div m = i - 1 /\ k % m = j - 1
  BY DivisionUnique
<1>2. k <= n * m - 1
  <2>1. m * (i - 1) <= m * (n - 1)
    OBVIOUS
  <2> QED
    BY <2>1
<1> HIDE DEF k
<1>3. 2 * k + b \in 1 .. 2 * n * m /\ (2 * k + b) % 2 = b % 2 /\ (2 * k + b - 1) \div 2 = k
  BY <1>1, <1>2
<1> QED
  BY <1>1, <1>3 DEF DeviceSpec, ServerSpec

\* The single ports come before the ranges.
LEMMA SpecsInOrder ==
  ASSUME NEW P \in Seq(Nat), NEW R \in Seq(Nat \X Nat)
  PROVE  LET S == [i \in DOMAIN P |-> <<P[i], P[i]>>] \o R
         IN  /\ S \in Seq(Nat \X Nat) /\ Len(S) = Len(P) + Len(R)
             /\ \A i \in 1 .. Len(P) : S[i] = <<P[i], P[i]>>
             /\ \A i \in 1 .. Len(R) : S[Len(P) + i] = R[i]
<1> DEFINE n == Len(P)
           A == [i \in 1 .. n |-> <<P[i], P[i]>>]
<1>1. n \in Nat /\ DOMAIN P = 1 .. n /\ \A i \in 1 .. n : P[i] \in Nat
  OBVIOUS
<1>2. A \in [1 .. n -> Nat \X Nat] /\ \A i \in 1 .. n : A[i] = <<P[i], P[i]>>
  BY <1>1
<1>3. A \in Seq(Nat \X Nat) /\ Len(A) = n
  <2> HIDE DEF A, n
  <2> QED
    BY <1>1, <1>2
<1>4. [i \in DOMAIN P |-> <<P[i], P[i]>>] = A
  BY <1>1
<1> HIDE DEF A, n
<1>5. /\ A \o R \in Seq(Nat \X Nat) /\ Len(A \o R) = n + Len(R)
      /\ \A i \in 1 .. n : (A \o R)[i] = A[i]
      /\ \A i \in 1 .. Len(R) : (A \o R)[n + i] = R[i]
  <2>1. Len(R) \in Nat
    OBVIOUS
  <2>2. /\ A \o R \in Seq(Nat \X Nat) /\ Len(A \o R) = Len(A) + Len(R)
        /\ \A i \in 1 .. Len(A) + Len(R) : (A \o R)[i] = IF i <= Len(A) THEN A[i] ELSE R[i - Len(A)]
    BY <1>3, ConcatProperties
  <2>3. ASSUME NEW i \in 1 .. n
        PROVE  (A \o R)[i] = A[i]
    BY <1>1, <1>3, <2>1, <2>2
  <2>4. ASSUME NEW i \in 1 .. Len(R)
        PROVE  (A \o R)[n + i] = R[i]
    <3>1. n + i \in 1 .. Len(A) + Len(R) /\ ~(n + i <= Len(A)) /\ n + i - Len(A) = i
      BY <1>1, <1>3, <2>1
    <3>2. PICK k \in 1 .. Len(A) + Len(R) : k = n + i
      BY <3>1
    <3>3. (A \o R)[k] = IF k <= Len(A) THEN A[k] ELSE R[k - Len(A)]
      BY <2>2
    <3>4. ~(k <= Len(A)) /\ k - Len(A) = i
      BY <1>1, <1>3, <2>1, <3>2
    <3>5. (A \o R)[k] = R[i]
      BY <3>3, <3>4
    <3> QED
      BY <3>2, <3>5
  <2> QED
    BY <1>3, <2>2, <2>3, <2>4
<1> QED
  BY <1>2, <1>4, <1>5 DEF n

\* What collect_port_specs writes is what the ports mean, and there is at least one spec.
LEMMA SpecsMean ==
  ASSUME NEW ports \in PortsSpec \cup {None}, NEW p \in Nat
  PROVE  LET S == OrAny(PortSpecs(ports))
         IN  /\ Len(S) \in Nat \ {0} /\ DOMAIN S = 1 .. Len(S)
             /\ (\E i \in 1 .. Len(S) : InSpec(p, S[i])) <=> Meant(ports, p)
<1> DEFINE S == OrAny(PortSpecs(ports))
<1>1. CASE ports = None
  <2>1. S = <<AnyPort>> /\ Meant(ports, p)
    BY <1>1 DEF OrAny, PortSpecs, Meant
  <2>2. Len(S) = 1 /\ DOMAIN S = 1 .. 1 /\ S[1] = AnyPort
    BY <2>1
  <2> QED
    BY <2>1, <2>2 DEF InSpec
<1>2. CASE ports # None
  <2>1. PICK P \in Seq(Nat), R \in Seq(Nat \X Nat) : P = ports.ports /\ R = ports.ranges
    BY <1>2 DEF PortsSpec
  <2> DEFINE A == [i \in DOMAIN P |-> <<P[i], P[i]>>] \o R
             n == Len(P)
  <2>2. /\ A \in Seq(Nat \X Nat) /\ Len(A) = n + Len(R)
        /\ \A i \in 1 .. n : A[i] = <<P[i], P[i]>>
        /\ \A i \in 1 .. Len(R) : A[n + i] = R[i]
    BY SpecsInOrder
  <2>3. PortSpecs(ports) = A
    BY <1>2, <2>1 DEF PortSpecs, collect_port_specs
  <2> HIDE DEF A
  <2>4. Meant(ports, p) <=> \/ P = <<>> /\ R = <<>>
                            \/ \E i \in 1 .. n : P[i] = p
                            \/ \E i \in 1 .. Len(R) : R[i][1] <= p /\ p <= R[i][2]
    BY <1>2, <2>1 DEF Meant
  <2>5. CASE A = <<>>
    <3>1. S = <<AnyPort>> /\ P = <<>> /\ R = <<>>
      BY <2>2, <2>3, <2>5 DEF OrAny
    <3>2. Len(S) = 1 /\ DOMAIN S = 1 .. 1 /\ S[1] = AnyPort
      BY <3>1
    <3> QED
      BY <2>4, <3>1, <3>2 DEF InSpec
  <2>6. CASE A # <<>>
    <3>1. S = A /\ ~(P = <<>> /\ R = <<>>)
      BY <2>2, <2>3, <2>6 DEF OrAny
    <3>2. Len(A) \in Nat \ {0} /\ DOMAIN A = 1 .. Len(A)
      BY <2>2, <2>6
    <3>3. \A i \in 1 .. Len(A) : InSpec(p, A[i]) <=> A[i][1] <= p /\ p <= A[i][2]
      BY <2>2 DEF InSpec, AnyPort
    <3>4. ASSUME NEW i \in 1 .. Len(A), InSpec(p, A[i])
          PROVE  Meant(ports, p)
      <4>1. CASE i \in 1 .. n
        <5>1. P[i] = p
          BY <2>2, <3>3, <3>4, <4>1
        <5> QED
          BY <2>4, <4>1, <5>1
      <4>2. CASE i \notin 1 .. n
        <5>1. i - n \in 1 .. Len(R) /\ n + (i - n) = i
          BY <2>2, <4>2
        <5>2. A[i] = R[i - n]
          BY <2>2, <5>1
        <5> QED
          BY <2>4, <3>3, <3>4, <5>1, <5>2
      <4> QED
        BY <4>1, <4>2
    <3>5. ASSUME NEW i \in 1 .. n, P[i] = p
          PROVE  \E j \in 1 .. Len(A) : InSpec(p, A[j])
      <4>1. n \in Nat /\ Len(R) \in Nat
        OBVIOUS
      <4>2. i \in 1 .. Len(A) /\ A[i] = <<p, p>>
        <5>1. A[i] = <<p, p>>
          BY <2>2, <3>5
        <5>2. i \in 1 .. Len(A)
          <6>1. Len(A) = n + Len(R)
            BY <2>2
          <6> HIDE DEF n
          <6> QED
            BY <4>1, <6>1
        <5> QED
          BY <5>1, <5>2
      <4> QED
        BY <3>3, <4>2
    <3>6. ASSUME NEW i \in 1 .. Len(R), R[i][1] <= p, p <= R[i][2]
          PROVE  \E j \in 1 .. Len(A) : InSpec(p, A[j])
      <4>1. n \in Nat /\ Len(R) \in Nat
        OBVIOUS
      <4>2. n + i \in 1 .. Len(A) /\ A[n + i] = R[i]
        <5>1. A[n + i] = R[i]
          BY <2>2
        <5>2. n + i \in 1 .. Len(A)
          <6>1. Len(A) = n + Len(R)
            BY <2>2
          <6> HIDE DEF n
          <6> QED
            BY <4>1, <6>1
        <5> QED
          BY <5>1, <5>2
      <4> QED
        BY <3>3, <3>6, <4>2
    <3>7. ASSUME Meant(ports, p)
          PROVE  \E i \in 1 .. Len(A) : InSpec(p, A[i])
      BY <2>4, <3>1, <3>5, <3>6, <3>7
    <3>8. Len(S) \in Nat \ {0} /\ DOMAIN S = 1 .. Len(S)
      BY <3>1, <3>2
    <3>9. (\E i \in 1 .. Len(S) : InSpec(p, S[i])) <=> Meant(ports, p)
      <4> HIDE DEF S
      <4> QED
        BY <3>1, <3>4, <3>7
    <3> QED
      BY <3>8, <3>9
  <2> QED
    BY <2>5, <2>6
<1> QED
  BY <1>1, <1>2


DeviceSpecs(s) == OrAny(PortSpecs(s.device_ports))
ServerSpecs(s) == OrAny(PortSpecs(s.application_server_ports))

\* The two ends of the flow with a number.
LEMMA FlowEnds ==
  ASSUME NEW s, NEW f \in 1 .. 2 * Len(DeviceSpecs(s)) * Len(ServerSpecs(s)),
         NEW m, m = Len(ServerSpecs(s))
  PROVE  /\ f % 2 = 1 => map_ports_to_media_subcomponents(s)[f].fDescs[1]
                           = format_flow_description("out", SrcIp(s), DeviceSpecs(s)[DeviceSpec(f, m)],
                                                     DstIp(s), ServerSpecs(s)[ServerSpec(f, m)])
         /\ f % 2 # 1 => map_ports_to_media_subcomponents(s)[f].fDescs[1]
                           = format_flow_description("out", DstIp(s), ServerSpecs(s)[ServerSpec(f, m)],
                                                     SrcIp(s), DeviceSpecs(s)[DeviceSpec(f, m)])
  BY DEF map_ports_to_media_subcomponents, SubComponent, DeviceSpec, ServerSpec, DeviceSpecs, ServerSpecs

\* map_ports_to_media_subcomponents is exact for ports of the API's types.
LEMMA FlowsExact ==
  ASSUME NEW s, s.device_ports \in PortsSpec \cup {None}, s.application_server_ports \in PortsSpec \cup {None}
  PROVE  Exact(map_ports_to_media_subcomponents(s), s)
<1> SUFFICES ASSUME SrcIp(s) # DstIp(s)
             PROVE  Admitted(map_ports_to_media_subcomponents(s), s) = Wanted(s)
  BY DEF Exact
<1>1. PICK S, D : S = DeviceSpecs(s) /\ D = ServerSpecs(s)
  OBVIOUS
<1>2. PICK n, m : n = Len(S) /\ m = Len(D)
  OBVIOUS
<1>3. PICK F : F = map_ports_to_media_subcomponents(s)
  OBVIOUS
<1>4. \A p \in Nat : /\ n \in Nat \ {0} /\ m \in Nat \ {0}
                     /\ (\E i \in 1 .. n : InSpec(p, S[i])) <=> Meant(s.device_ports, p)
                     /\ (\E i \in 1 .. m : InSpec(p, D[i])) <=> Meant(s.application_server_ports, p)
  BY <1>1, <1>2, SpecsMean DEF DeviceSpecs, ServerSpecs
<1>5. n \in Nat \ {0} /\ m \in Nat \ {0}
  <2>1. 0 \in Nat
    OBVIOUS
  <2> QED
    BY <1>4, <2>1
<1>6. DOMAIN F = 1 .. 2 * n * m
  BY <1>1, <1>2, <1>3 DEF map_ports_to_media_subcomponents, DeviceSpecs, ServerSpecs
<1>7. ASSUME NEW f \in 1 .. 2 * n * m
      PROVE  /\ f % 2 = 1 => F[f].fDescs[1] = format_flow_description("out", SrcIp(s), S[DeviceSpec(f, m)], DstIp(s), D[ServerSpec(f, m)])
             /\ f % 2 # 1 => F[f].fDescs[1] = format_flow_description("out", DstIp(s), D[ServerSpec(f, m)], SrcIp(s), S[DeviceSpec(f, m)])
  <2>1. f \in 1 .. 2 * Len(DeviceSpecs(s)) * Len(ServerSpecs(s)) /\ m = Len(ServerSpecs(s))
    BY <1>1, <1>2
  <2>2. /\ f % 2 = 1 => map_ports_to_media_subcomponents(s)[f].fDescs[1]
                         = format_flow_description("out", SrcIp(s), DeviceSpecs(s)[DeviceSpec(f, m)],
                                                   DstIp(s), ServerSpecs(s)[ServerSpec(f, m)])
        /\ f % 2 # 1 => map_ports_to_media_subcomponents(s)[f].fDescs[1]
                         = format_flow_description("out", DstIp(s), ServerSpecs(s)[ServerSpec(f, m)],
                                                   SrcIp(s), DeviceSpecs(s)[DeviceSpec(f, m)])
    BY <2>1, FlowEnds, Zenon
  <2> QED
    BY <1>1, <1>3, <2>2, Zenon
<1>8. ASSUME NEW f \in 1 .. 2 * n * m
      PROVE  DeviceSpec(f, m) \in 1 .. n /\ ServerSpec(f, m) \in 1 .. m
  BY <1>5, PairNumber
<1>9. ASSUME NEW i \in 1 .. n, NEW j \in 1 .. m, NEW b \in {1, 2}
      PROVE  \E f \in 1 .. 2 * n * m : f % 2 = b % 2 /\ DeviceSpec(f, m) = i /\ ServerSpec(f, m) = j
  <2>1. n \in Nat /\ m \in Nat
    BY <1>5
  <2> QED
    BY <2>1, NumberOfPair, Zenon
<1>10. ASSUME NEW p \in Packets
       PROVE  (\E f \in 1 .. 2 * n * m : Admits(F[f].fDescs[1], SrcIp(s), DstIp(s), p))
                <=> Meant(s.device_ports, p.device) /\ Meant(s.application_server_ports, p.server)
  <2>1. p.uplink \in BOOLEAN /\ p.device \in Nat /\ p.server \in Nat
    BY RequestAssumption DEF Packets
  <2>2. ASSUME NEW f \in 1 .. 2 * n * m
        PROVE  Admits(F[f].fDescs[1], SrcIp(s), DstIp(s), p)
                 <=> /\ f % 2 = 1 <=> p.uplink
                     /\ InSpec(p.device, S[DeviceSpec(f, m)]) /\ InSpec(p.server, D[ServerSpec(f, m)])
    <3>1. PICK e : e = F[f].fDescs[1]
      OBVIOUS
    <3>2. CASE f % 2 = 1
      <4>1. e.src = SrcIp(s) /\ e.dst = DstIp(s) /\ e.sport = S[DeviceSpec(f, m)] /\ e.dport = D[ServerSpec(f, m)]
        <5>1. e = format_flow_description("out", SrcIp(s), S[DeviceSpec(f, m)], DstIp(s), D[ServerSpec(f, m)])
          BY <1>7, <3>1, <3>2, Zenon
        <5> QED
          BY <5>1 DEF format_flow_description
      <4>2. Admits(e, SrcIp(s), DstIp(s), p)
              <=> p.uplink /\ InSpec(p.device, S[DeviceSpec(f, m)]) /\ InSpec(p.server, D[ServerSpec(f, m)])
        BY <2>1, <4>1, Zenon DEF Admits
      <4> QED
        BY <3>1, <3>2, <4>2, Zenon
    <3>3. CASE f % 2 # 1
      <4>1. e.src = DstIp(s) /\ e.dst = SrcIp(s) /\ e.sport = D[ServerSpec(f, m)] /\ e.dport = S[DeviceSpec(f, m)]
        <5>1. e = format_flow_description("out", DstIp(s), D[ServerSpec(f, m)], SrcIp(s), S[DeviceSpec(f, m)])
          BY <1>7, <3>1, <3>3, Zenon
        <5> QED
          BY <5>1 DEF format_flow_description
      <4>2. Admits(e, SrcIp(s), DstIp(s), p)
              <=> ~p.uplink /\ InSpec(p.device, S[DeviceSpec(f, m)]) /\ InSpec(p.server, D[ServerSpec(f, m)])
        BY <2>1, <4>1, Zenon DEF Admits
      <4> QED
        BY <3>1, <3>3, <4>2, Zenon
    <3> QED
      BY <3>2, <3>3
  <2>3. ASSUME NEW f \in 1 .. 2 * n * m, Admits(F[f].fDescs[1], SrcIp(s), DstIp(s), p)
        PROVE  Meant(s.device_ports, p.device) /\ Meant(s.application_server_ports, p.server)
    <3>1. InSpec(p.device, S[DeviceSpec(f, m)]) /\ InSpec(p.server, D[ServerSpec(f, m)])
      BY <2>2, <2>3
    <3>2. DeviceSpec(f, m) \in 1 .. n /\ ServerSpec(f, m) \in 1 .. m
      BY <1>8
    <3> QED
      BY <1>4, <2>1, <3>1, <3>2, Zenon
  <2>4. ASSUME Meant(s.device_ports, p.device), Meant(s.application_server_ports, p.server)
        PROVE  \E f \in 1 .. 2 * n * m : Admits(F[f].fDescs[1], SrcIp(s), DstIp(s), p)
    <3>1. PICK i \in 1 .. n, j \in 1 .. m : InSpec(p.device, S[i]) /\ InSpec(p.server, D[j])
      BY <1>4, <2>1, <2>4
    <3>2. PICK b \in {1, 2} : b % 2 = 1 <=> p.uplink
      BY <2>1
    <3>3. PICK f \in 1 .. 2 * n * m : f % 2 = b % 2 /\ DeviceSpec(f, m) = i /\ ServerSpec(f, m) = j
      BY <1>9
    <3> QED
      BY <2>2, <3>1, <3>2, <3>3
  <2> QED
    BY <2>3, <2>4
<1> QED
  BY <1>3, <1>6, <1>10 DEF Admitted, Wanted


-----------------------------------------------------------------------------
(* The stages of a creation *)

\* The session create_session makes of the request, with the SUPI it found.
Made(b, supi) ==
  CreateSessionRequest(b) @@ [ue_supi |-> supi, qos_profile_mapping |-> qos_profile_mappings_[b["qosProfile"]]]

RequestKnown == \E c \in Calls : call = c.call /\ request = c.request

\* QodPcfHandler answered without asking the PCF.
Refused == stage = "answered" /\ answer.code \in {"bad_request", "pcf_request_invalid"}

SessionInv ==
  /\ stage = "QodSessionManager" => Readable(request) /\ session = CreateSessionRequest(request.body)
  /\ stage \in {"apply_session_to_pcf", "QodPcfHandler", "sent"} \/ Refused =>
       /\ Readable(request) /\ session.qos_profile \in DOMAIN qos_profile_mappings_
       /\ \E supi \in {None, Supi} : session = Made(request.body, supi)

\* The message passes the checks before the context is built.
MessageGood == RequiredKeys \subseteq DOMAIN message /\ ~MappingRefused(message)

MessageInv ==
  /\ stage \in {"QodPcfHandler", "sent"} \/ Refused => message = build_pcf_request(session)
  /\ stage = "sent" => MessageGood
  /\ stage = "sent" \/ (Refused /\ MessageGood) =>
       context = build_app_session_context(ParsedSession(message))
  /\ stage = "sent" => validate_app_session_context(context)
  /\ Refused /\ MessageGood => ~validate_app_session_context(context)

CreationInv == RequestKnown /\ SessionInv /\ MessageInv


\* parse_ports makes sequences of ports and of pairs of ports of a ports object.
LEMMA ParsedPorts ==
  ASSUME NEW j, PortsObject(j)
  PROVE  parse_ports(j) \in PortsSpec \cup {None}
<1>1. CASE j = None
  BY <1>1 DEF parse_ports
<1>2. CASE j # None
  <2>1. Value(j, "ranges", <<>>) \in Seq(Nat \X Nat) /\ Value(j, "ports", <<>>) \in Seq(Nat)
    BY <1>2 DEF PortsObject, Value, Has
  <2> QED
    BY <1>2, <2>1 DEF parse_ports, PortsSpec
<1> QED
  BY <1>1, <1>2

\* create_session adds two fields to what handle_create_session parsed.
LEMMA MadeFields ==
  ASSUME NEW b, NEW supi
  PROVE  LET s == Made(b, supi)
         IN  /\ s.device = parse_device(Value(b, "device", None))
             /\ s.application_server = parse_application_server(b["applicationServer"])
             /\ s.device_ports = parse_ports(Value(b, "devicePorts", None))
             /\ s.application_server_ports = parse_ports(Value(b, "applicationServerPorts", None))
             /\ s.qos_profile = b["qosProfile"] /\ s.duration = b["duration"]
             /\ s.ue_supi = supi /\ s.qos_profile_mapping = qos_profile_mappings_[b["qosProfile"]]
  BY DEF Made, CreateSessionRequest, @@

\* The ports of a session and those QodPcfHandler reads in its message have their types.
LEMMA SessionPorts ==
  ASSUME CreationInv, NEW supi, session = Made(request.body, supi), Readable(request)
  PROVE  /\ session.device_ports \in PortsSpec \cup {None} /\ session.application_server_ports \in PortsSpec \cup {None}
         /\ PortsWritten(session.device_ports)
<1>1. PICK c \in Calls : request = c.request
  BY DEF CreationInv, RequestKnown
<1>2. \A key \in {"devicePorts", "applicationServerPorts"} : PortsObject(Value(request.body, key, None))
  BY <1>1, CallAssumption
<1>3. /\ session.device_ports = parse_ports(Value(request.body, "devicePorts", None))
      /\ session.application_server_ports = parse_ports(Value(request.body, "applicationServerPorts", None))
  BY MadeFields
<1>4. PortsWritten(session.device_ports)
  BY <1>1, <1>3, NullAssumption
<1> QED
  BY <1>2, <1>3, <1>4, ParsedPorts

\* The ports QodPcfHandler reads in the message have their types, too: the device's mean
\* its single ports, the server's are not there.
LEMMA MessagePorts ==
  ASSUME NEW s, s.device_ports \in PortsSpec \cup {None}, PortsWritten(s.device_ports)
  PROVE  LET t == ParsedSession(build_pcf_request(s))
         IN  /\ t.device_ports \in PortsSpec \cup {None} /\ t.application_server_ports = None
             /\ \A n : Meant(t.device_ports, n) <=> Meant(Carried(s).device_ports, n)
<1> DEFINE m == build_pcf_request(s)
           P == IF s.device_ports = None THEN NoKeys ELSE PortsForPcf(s.device_ports)
<1>1. ~Has(m, "application_server_ports") /\ Value(m, "device_ports", None) = Json(P)
  BY DEF build_pcf_request, Has, Value, Optional, NoKeys, @@, :>
<1>2. /\ PortsObject(Json(P))
      /\ \A n : Meant(parse_ports(Json(P)), n) <=> Meant(Carried(s).device_ports, n)
  <2>1. CASE s.device_ports = None
    <3>1. Json(P) = None /\ Carried(s).device_ports = None
      BY <2>1 DEF Json, NoKeys, Carried
    <3> QED
      BY <3>1 DEF PortsObject, parse_ports, Meant
  <2>2. CASE s.device_ports # None
    <3>1. PICK q \in Seq(Nat) : q = s.device_ports.ports
      BY <2>2 DEF PortsSpec
    <3>2. /\ P # None /\ ~Has(P, "ranges") /\ (Has(P, "ports") <=> q # <<>>)
          /\ Has(P, "ports") => P["ports"] = q
      BY <2>2, <3>1 DEF PortsWritten, PortsForPcf, Has, NonEmpty, NoKeys, @@, :>
    <3> HIDE DEF P
    <3>3. PortsObject(Json(P))
      BY <3>1, <3>2 DEF PortsObject, Json
    <3>4. PICK c : c = [ranges |-> <<>>, ports |-> q]
      OBVIOUS
    <3>5. Carried(s).device_ports = c
      BY <2>2, <3>1, <3>4 DEF Carried
    <3>6. (parse_ports(Json(P)) = None /\ q = <<>>) \/ parse_ports(Json(P)) = c
      <4>1. CASE DOMAIN P = {}
        BY <3>2, <4>1 DEF Json, parse_ports, Has
      <4>2. CASE DOMAIN P # {}
        <5>1. Json(P) = P /\ Value(P, "ranges", <<>>) = <<>> /\ Value(P, "ports", <<>>) = q
          BY <3>2, <4>2 DEF Json, Value
        <5> QED
          BY <3>2, <3>4, <5>1 DEF parse_ports
      <4> QED
        BY <4>1, <4>2
    <3>7. \A n : (q = <<>> => Meant(c, n)) /\ Meant(None, n)
      BY <3>4 DEF Meant
    <3> QED
      BY <3>3, <3>5, <3>6, <3>7
  <2> QED
    BY <2>1, <2>2
<1> HIDE DEF m, P
<1>3. parse_ports(Value(m, "device_ports", None)) \in PortsSpec \cup {None}
  BY <1>1, <1>2, ParsedPorts
<1>4. parse_ports(Value(m, "application_server_ports", None)) = None
  BY <1>1 DEF Value, parse_ports
<1>5. /\ ParsedSession(m).device_ports = parse_ports(Value(m, "device_ports", None))
      /\ ParsedSession(m).application_server_ports = parse_ports(Value(m, "application_server_ports", None))
  BY DEF ParsedSession
<1> QED
  BY <1>1, <1>2, <1>3, <1>4, <1>5 DEF m

\* The flows of a context are those of the session it was built for.
LEMMA ContextFlows ==
  ASSUME NEW s
  PROVE  build_app_session_context(s)["medComponents"][1].medSubComps = map_ports_to_media_subcomponents(s)
<1>1. build_app_session_context(s)["medComponents"] = build_media_components(s)
  BY DEF build_app_session_context, @@, :>
<1> QED
  BY <1>1 DEF build_media_components, :>

-----------------------------------------------------------------------------
(* The invariant of a creation is inductive *)

CreationStages == {"QodSessionManager", "apply_session_to_pcf", "QodPcfHandler", "sent", "answered"}

\* The handlers by message type.
LEMMA HandlerOf ==
  /\ DOMAIN handlers_ = {"qod_create_session", "qod_get_session", "qod_delete_session", "qod_extend_session",
                         "qod_retrieve_sessions", "qos_request", "get_subscriptions", "create_subscription",
                         "get_subscription", "delete_subscription"}
  /\ handlers_["qod_create_session"] = "QodHandler"
  /\ handlers_["qod_get_session"] = "handle_get_session"
  /\ handlers_["qod_delete_session"] = "handle_delete_session"
  /\ handlers_["qod_extend_session"] = "handle_extend_session"
  /\ handlers_["qod_retrieve_sessions"] = "handle_retrieve_sessions"
  /\ \A t \in {"qos_request", "get_subscriptions", "create_subscription", "get_subscription", "delete_subscription"} :
       handlers_[t] \in {"PolicyManager", "SubscriptionManager"}
<1>1. /\ DOMAIN configure_components = {"qos_request", "get_subscriptions", "create_subscription",
                                        "get_subscription", "delete_subscription"}
      /\ \A t \in DOMAIN configure_components : configure_components[t] \in {"PolicyManager", "SubscriptionManager"}
  BY DEF configure_components, @@, :>
<1>2. /\ DOMAIN register_qod_handlers = {"qod_create_session", "qod_get_session", "qod_delete_session",
                                         "qod_extend_session", "qod_retrieve_sessions"}
      /\ register_qod_handlers["qod_create_session"] = "QodHandler"
      /\ register_qod_handlers["qod_get_session"] = "handle_get_session"
      /\ register_qod_handlers["qod_delete_session"] = "handle_delete_session"
      /\ register_qod_handlers["qod_extend_session"] = "handle_extend_session"
      /\ register_qod_handlers["qod_retrieve_sessions"] = "handle_retrieve_sessions"
  BY DEF register_qod_handlers, @@, :>
<1> QED
  BY <1>1, <1>2 DEF handlers_, @@

\* A request that was just received is at no stage of a creation.
LEMMA CreationInit == RestInit => CreationInv
  BY DEF RestInit, CreationInv, RequestKnown, SessionInv, MessageInv, Refused

\* A step of another component leaves the request alone and leads to no stage of a creation.
LEMMA OutsideCreation ==
  ASSUME CreationInv, RestNext, ~CreateStep
  PROVE  call' = call /\ request' = request /\ stage' \notin CreationStages
<1> USE DEF CreationStages, requestVars
<1>1. CASE create_handler
  BY <1>1 DEF create_handler
<1>2. CASE process_message
  BY <1>2 DEF process_message
<1>3. CASE route_message
  BY <1>3, HandlerOf DEF route_message, create_default_handler, Reply, Has
<1>4. CASE message_to_http_response
  BY <1>4 DEF message_to_http_response
<1> USE DEF Reply, create_error_response, create_success_response
<1>5. CASE handle_get_session
  BY <1>5 DEF handle_get_session
<1>6. CASE handle_delete_session
  BY <1>6 DEF handle_delete_session
<1>7. CASE handle_extend_session
  BY <1>7 DEF handle_extend_session
<1>8. CASE ClassifyFailure
  BY <1>8 DEF ClassifyFailure
<1>9. CASE handle_retrieve_sessions
  BY <1>9 DEF handle_retrieve_sessions
<1>10. CASE CreateReply
  BY <1>10 DEF CreateReply
<1>11. CASE OthersAct
  BY <1>11 DEF OthersAct
<1> QED
  BY <1>1, <1>2, <1>3, <1>4, <1>5, <1>6, <1>7, <1>8, <1>9, <1>10, <1>11 DEF RestNext

\* A nonempty set of naturals has a least element.
LEMMA LeastOf ==
  ASSUME NEW T \in SUBSET Nat, T # {}
  PROVE  \E i \in T : \A k \in T : i <= k
<1>1. PICK i \in T : \A k \in T : ~(<<k, i>> \in {p \in Nat \X Nat : p[1] < p[2]})
  BY NatLessThanWellFounded, WFMin DEF OpToRel
<1>2. \A k \in T : ~(k < i)
  BY <1>1
<1> QED
  BY <1>2

\* The answers of handle_create_session to a body it does not accept.
Refusals == {Error(400, code) : code \in {"INVALID_ARGUMENT", "OUT_OF_RANGE", "DURATION_OUT_OF_RANGE", "INVALID_SINK"}}
              \cup {Error(422, code) : code \in {"UNNECESSARY_IDENTIFIER", "MISSING_IDENTIFIER"}}

\* The first check that fails is one of the checks.
LEMMA CreateErrors ==
  FirstError(CreateChecks(request)) \in Refusals \cup {None}
<1> DEFINE checks == CreateChecks(request)
<1>1. DOMAIN checks = 1 .. 8 /\ \A i \in 1 .. 8 : checks[i].answer \in Refusals
  BY DEF CreateChecks, Refusals
<1> DEFINE bad == {i \in DOMAIN checks : checks[i].fails}
<1> HIDE DEF checks
<1>2. CASE bad = {}
  BY <1>2 DEF FirstError, checks
<1>3. CASE bad # {}
  <2>1. bad \in SUBSET Nat
    BY <1>1
  <2>2. \E i \in bad : \A k \in bad : i <= k
    BY <1>3, <2>1, LeastOf
  <2> DEFINE first == CHOOSE i \in bad : \A k \in bad : i <= k
  <2>3. first \in bad
    BY <2>2
  <2>4. FirstError(checks) = checks[first].answer
    BY <1>3 DEF FirstError
  <2>5. first \in 1 .. 8
    BY <1>1, <2>3
  <2> QED
    BY <1>1, <2>4, <2>5 DEF checks
<1> QED
  BY <1>2, <1>3

\* Every step of a creation keeps the invariant.
LEMMA CreationNext ==
  ASSUME CreationInv, [RestNext]_allVars
  PROVE  CreationInv'
<1>1. CASE UNCHANGED allVars
  BY <1>1 DEF allVars, restVars, CreationInv, RequestKnown, SessionInv, MessageInv, MessageGood, Refused, Readable
<1>2. CASE RestNext /\ ~CreateStep
  BY <1>2, OutsideCreation DEF CreationInv, RequestKnown, SessionInv, MessageInv, Refused, CreationStages
<1>3. CASE CreateStep
  <2>1. call' = call
    BY <1>3 DEF CreateStep, restVars
  <2>2. CASE handle_create_session
    <3>1. /\ request' = request
          /\ \/ stage' = "answered" /\ answer'.code \notin {"bad_request", "pcf_request_invalid"}
             \/ stage' = "QodSessionManager" /\ Readable(request) /\ session' = CreateSessionRequest(request.body)
      <4>1. PICK error : error = IF request.body \in {None, Unparseable} THEN Error(400, "INVALID_ARGUMENT")
                                 ELSE FirstError(CreateChecks(request))
        OBVIOUS
      <4>2. error = None \/ (error # None /\ error.code \notin {"bad_request", "pcf_request_invalid"})
        BY <4>1, CreateErrors DEF Refusals, Error
      <4>3. error = None => Readable(request)
        BY <4>1, NullAssumption DEF Readable
      <4>4. IF error # None THEN Finish(error)
            ELSE stage' = "QodSessionManager" /\ session' = CreateSessionRequest(request.body)
        BY <2>2, <4>1 DEF handle_create_session
      <4> QED
        BY <2>2, <4>2, <4>3, <4>4 DEF handle_create_session, Finish
    <3> QED
      BY <2>1, <3>1 DEF CreationInv, RequestKnown, SessionInv, MessageInv, Refused, Readable
  <2>3. CASE create_session
    <3>1. Readable(request) /\ session = CreateSessionRequest(request.body) /\ request' = request
      BY <2>3 DEF create_session, CreationInv, SessionInv
    <3>2. CASE stage' = "answered"
      BY <2>1, <2>3, <3>1, <3>2 DEF create_session, Finish, Error, CreationInv, RequestKnown, SessionInv, MessageInv, Refused
    <3>3. CASE stage' # "answered"
      <4>1. session.qos_profile = request.body["qosProfile"]
        BY <3>1 DEF CreateSessionRequest
      <4>2. PICK supi \in {None, Supi} :
              session' = session @@ [ue_supi |-> supi,
                                     qos_profile_mapping |-> qos_profile_mappings_[session.qos_profile]]
        BY <2>3, <3>3 DEF create_session, Finish
      <4>3. session' = Made(request.body, supi)
        BY <3>1, <4>1, <4>2 DEF Made
      <4>4. session'.qos_profile = session.qos_profile
        BY <4>1, <4>3, MadeFields
      <4>5. stage' = "apply_session_to_pcf" /\ session.qos_profile \in DOMAIN qos_profile_mappings_
        BY <2>3, <3>3 DEF create_session, Finish, validate_qos_profile
      <4> QED
        BY <2>1, <3>1, <4>3, <4>4, <4>5 DEF CreationInv, RequestKnown, SessionInv, MessageInv, Refused, Readable
    <3> QED
      BY <3>2, <3>3
  <2>4. CASE apply_session_to_pcf
    BY <2>1, <2>4 DEF apply_session_to_pcf, CreationInv, RequestKnown, SessionInv, MessageInv, Refused, Readable
  <2>5. CASE handle_qod_create_pcf_session
    <3>1. /\ stage = "QodPcfHandler" /\ request' = request /\ session' = session /\ message' = message
      BY <2>5 DEF handle_qod_create_pcf_session
    <3>2. RequestKnown' /\ SessionInv'
      <4>1. stage' \in {"sent", "answered"}
        BY <2>5 DEF handle_qod_create_pcf_session, Finish
      <4> QED
        BY <2>1, <3>1, <4>1 DEF CreationInv, RequestKnown, SessionInv, Refused, Readable
    <3>3. MessageInv'
      BY <2>5, <3>1 DEF handle_qod_create_pcf_session, Finish, Error, CreationInv, MessageInv, MessageGood, Refused
    <3> QED
      BY <3>2, <3>3 DEF CreationInv
  <2> QED
    BY <1>3, <2>2, <2>3, <2>4, <2>5 DEF CreateStep
<1> QED
  BY <1>1, <1>2, <1>3


-----------------------------------------------------------------------------
(* The device and the server on their way to the PCF *)

\* What QodPcfHandler reads of a device that AF core wrote.
LEMMA DeviceKept ==
  ASSUME NEW d, NEW supi, convert_device_to_pcf(d, supi) # None
  PROVE  LET j == convert_device_to_pcf(d, supi)
             t == ParsePcfDevice(j)
         IN  /\ t.ipv6_address = d.ipv6_address
             /\ Has(j, "ipv6Address") <=> d.ipv6_address # None
             /\ Has(j, "ipv4Address") <=> d.ipv4_address # None
             /\ d.ipv4_address = None => t.ipv4_address = None
             /\ d.ipv4_address # None => /\ t.ipv4_address.public_address = d.ipv4_address.public_address
                                         /\ t.ipv4_address.private_address = d.ipv4_address.private_address
<1> DEFINE j == convert_device_to_pcf(d, supi)
           t == ParsePcfDevice(j)
           a == ("publicAddress" :> d.ipv4_address.public_address)
                  @@ Optional("privateAddress", d.ipv4_address.private_address)
                  @@ Optional("publicPort", d.ipv4_address.public_port)
<1>1. /\ Has(j, "ipv6Address") <=> d.ipv6_address # None
      /\ Has(j, "ipv4Address") <=> d.ipv4_address # None
      /\ d.ipv6_address # None => j["ipv6Address"] = d.ipv6_address
      /\ d.ipv4_address # None => j["ipv4Address"] = a
  <2> HIDE DEF a
  <2> QED
    BY DEF convert_device_to_pcf, Has, Optional, NoKeys, @@, :>, a
<1>2. Value(a, "publicAddress", "") = d.ipv4_address.public_address
  BY DEF Value, Has, @@, :>
<1>3. Value(a, "privateAddress", None) = d.ipv4_address.private_address
  BY DEF Value, Has, Optional, NoKeys, @@, :>
<1> HIDE DEF j, a
<1>4. /\ t.ipv6_address = Value(j, "ipv6Address", None)
      /\ t.ipv4_address = IF ~Has(j, "ipv4Address") THEN None
                          ELSE [public_address  |-> Value(j["ipv4Address"], "publicAddress", ""),
                                private_address |-> Value(j["ipv4Address"], "privateAddress", None)]
  BY DEF ParsePcfDevice, j
<1> HIDE DEF t
<1>5. t.ipv6_address = d.ipv6_address
  BY <1>1, <1>4 DEF Value
<1>6. d.ipv4_address # None => /\ t.ipv4_address.public_address = d.ipv4_address.public_address
                               /\ t.ipv4_address.private_address = d.ipv4_address.private_address
  <2> SUFFICES ASSUME d.ipv4_address # None
               PROVE  /\ t.ipv4_address.public_address = d.ipv4_address.public_address
                      /\ t.ipv4_address.private_address = d.ipv4_address.private_address
    OBVIOUS
  <2>1. PICK u, v : u = d.ipv4_address.public_address /\ v = d.ipv4_address.private_address
    OBVIOUS
  <2>2. t.ipv4_address = [public_address |-> u, private_address |-> v]
    BY <1>1, <1>2, <1>3, <1>4, <2>1, Zenon
  <2> QED
    BY <2>1, <2>2
<1> QED
  BY <1>1, <1>4, <1>5, <1>6 DEF j, t

\* The keys of the message that the session determines.
LEMMA MessageKeys ==
  ASSUME NEW s
  PROVE  LET m == build_pcf_request(s)
         IN  /\ {"qos_profile", "application_server", "qos_profile_mapping"} \subseteq DOMAIN m
             /\ Has(m, "device") <=> s.device # None
             /\ s.device # None => m["device"] = Json(convert_device_to_pcf(s.device, s.ue_supi))
             /\ m["qos_profile"] = s.qos_profile /\ m["qos_profile_mapping"] = s.qos_profile_mapping
             /\ m["application_server"] = (Optional("ipv4Address", s.application_server.ipv4_address)
                                             @@ Optional("ipv6Address", s.application_server.ipv6_address))
  BY DEF build_pcf_request, Has, Optional, NoKeys, @@, :>

\* The server's addresses come through.
LEMMA ServerKept ==
  ASSUME NEW s
  PROVE  DstIp(ParsedSession(build_pcf_request(s))) = DstIp(s)
<1> DEFINE m == build_pcf_request(s)
           a == Optional("ipv4Address", s.application_server.ipv4_address)
                  @@ Optional("ipv6Address", s.application_server.ipv6_address)
<1>1. m["application_server"] = a
  BY MessageKeys
<1>2. /\ Value(a, "ipv4Address", None) = s.application_server.ipv4_address
      /\ Value(a, "ipv6Address", None) = s.application_server.ipv6_address
  BY DEF Value, Has, Optional, NoKeys, @@, :>
<1> HIDE DEF m, a
<1>3. ParsedSession(m).application_server = [ipv4_address |-> s.application_server.ipv4_address,
                                             ipv6_address |-> s.application_server.ipv6_address]
  BY <1>1, <1>2 DEF ParsedSession, parse_application_server
<1> QED
  BY <1>3 DEF DstIp, m

\* What the context says of the UE.
LEMMA ContextKeys ==
  ASSUME NEW s
  PROVE  LET c == build_app_session_context(s)
         IN  /\ Has(c, "ueIpv4") <=> s.device # None /\ s.device.ipv4_address # None
             /\ Has(c, "ueIpv4") => c["ueIpv4"] = s.device.ipv4_address.public_address
             /\ Has(c, "ueIpv6") <=> s.device # None /\ s.device.ipv4_address = None /\ s.device.ipv6_address # None
             /\ Has(c, "ueIpv6") => c["ueIpv6"] = s.device.ipv6_address
             /\ ~Has(c, "ueMac") /\ Has(c, "notifUri") /\ Has(c, "suppFeat")
             /\ c["servInfStatus"] = "PRELIMINARY" /\ c["evSubsc"] = build_subscription_info
             /\ c["medComponents"] = build_media_components(s)
  BY DEF build_app_session_context, Has, Optional, NoKeys, @@, :>


\* The flows end at the session's two addresses.
LEMMA FlowAddresses ==
  ASSUME NEW s, NEW f \in DOMAIN map_ports_to_media_subcomponents(s)
  PROVE  LET e == map_ports_to_media_subcomponents(s)[f].fDescs[1]
         IN  {e.src, e.dst} = {SrcIp(s), DstIp(s)}
<1>1. PICK e : e = map_ports_to_media_subcomponents(s)[f].fDescs[1]
  OBVIOUS
<1>2. f \in 1 .. 2 * Len(DeviceSpecs(s)) * Len(ServerSpecs(s))
  BY DEF map_ports_to_media_subcomponents, DeviceSpecs, ServerSpecs
<1>3. PICK m : m = Len(ServerSpecs(s))
  OBVIOUS
<1>4. CASE f % 2 = 1
  <2>1. e = format_flow_description("out", SrcIp(s), DeviceSpecs(s)[DeviceSpec(f, m)],
                                    DstIp(s), ServerSpecs(s)[ServerSpec(f, m)])
    BY <1>1, <1>2, <1>3, <1>4, FlowEnds, Zenon
  <2>2. e.src = SrcIp(s) /\ e.dst = DstIp(s)
    BY <2>1 DEF format_flow_description
  <2> QED
    BY <1>1, <2>2
<1>5. CASE f % 2 # 1
  <2>1. e = format_flow_description("out", DstIp(s), ServerSpecs(s)[ServerSpec(f, m)],
                                    SrcIp(s), DeviceSpecs(s)[DeviceSpec(f, m)])
    BY <1>1, <1>2, <1>3, <1>5, FlowEnds, Zenon
  <2>2. e.src = DstIp(s) /\ e.dst = SrcIp(s)
    BY <2>1 DEF format_flow_description
  <2> QED
    BY <1>1, <2>2
<1> QED
  BY <1>4, <1>5

\* A context that passed the validation names the UE by one of its two addresses.
LEMMA OneIdentifier ==
  ASSUME NEW s, validate_app_session_context(build_app_session_context(s))
  PROVE  LET c == build_app_session_context(s)
         IN  /\ Has(c, "ueIpv4") \/ Has(c, "ueIpv6")
             /\ Has(c, "ueIpv4") => c["ueIpv4"] \in ValidIpv4
<1>1. PICK c : c = build_app_session_context(s)
  OBVIOUS
<1>2. validate_app_session_context_req_data(c)
  BY <1>1 DEF validate_app_session_context
<1>3. ~Has(c, "ueMac")
  BY <1>1, ContextKeys
<1>4. ASSUME ~Has(c, "ueIpv4"), ~Has(c, "ueIpv6")
      PROVE  FALSE
  <2>1. {f \in {"ueIpv4", "ueIpv6", "ueMac"} : Has(c, f)} = {}
    BY <1>3, <1>4
  <2>2. Cardinality({}) = 1
    BY <1>2, <2>1 DEF validate_app_session_context_req_data, validate_one_of_required
  <2> QED
    BY <2>2, FS_EmptySet
<1>5. Has(c, "ueIpv4") => c["ueIpv4"] \in ValidIpv4
  BY <1>2 DEF validate_app_session_context_req_data, is_valid_ipv4
<1> QED
  BY <1>1, <1>4, <1>5

\* Between the handler and the PCF the request is about the device of the session.
LEMMA CreationDevice ==
  ASSUME CreationInv
  PROVE  ContextNamesDevice
<1> SUFFICES ASSUME stage = "sent"
             PROVE  LET d   == session.device
                        own == {d.ipv6_address} \cup
                               (IF d.ipv4_address = None THEN {}
                                ELSE {d.ipv4_address.public_address, d.ipv4_address.private_address})
                    IN  /\ Has(context, "ueIpv4") => context["ueIpv4"] = d.ipv4_address.public_address
                        /\ Has(context, "ueIpv6") => context["ueIpv6"] = d.ipv6_address
                        /\ \A f \in DOMAIN Flows : \E a \in own \ {None} :
                             {Flows[f].fDescs[1].src, Flows[f].fDescs[1].dst} = {a, DstIp(session)}
  BY DEF ContextNamesDevice
<1>1. PICK d, t : d = session.device /\ t = ParsedSession(message)
  OBVIOUS
<1>2. /\ message = build_pcf_request(session) /\ RequiredKeys \subseteq DOMAIN message
      /\ context = build_app_session_context(t) /\ validate_app_session_context(context)
  BY <1>1 DEF CreationInv, MessageInv, MessageGood
<1>3. d # None /\ message["device"] = Json(convert_device_to_pcf(d, session.ue_supi))
  BY <1>1, <1>2, MessageKeys DEF RequiredKeys, Has
<1>4. t.device = ParsePcfDevice(message["device"])
  BY <1>1 DEF ParsedSession
<1>5. /\ Has(context, "ueIpv4") \/ Has(context, "ueIpv6")
      /\ Has(context, "ueIpv4") => context["ueIpv4"] \in ValidIpv4
  BY <1>2, OneIdentifier
<1>6. /\ Has(context, "ueIpv4") <=> t.device # None /\ t.device.ipv4_address # None
      /\ Has(context, "ueIpv4") => context["ueIpv4"] = t.device.ipv4_address.public_address
      /\ Has(context, "ueIpv6") <=> t.device # None /\ t.device.ipv4_address = None /\ t.device.ipv6_address # None
      /\ Has(context, "ueIpv6") => context["ueIpv6"] = t.device.ipv6_address
  BY <1>2, ContextKeys
<1>7. PICK j : j = convert_device_to_pcf(d, session.ue_supi)
  OBVIOUS
<1>8. j # None /\ t.device = ParsePcfDevice(j)
  BY <1>3, <1>4, <1>5, <1>6, <1>7 DEF Json, ParsePcfDevice
<1>9. /\ t.device.ipv6_address = d.ipv6_address
      /\ d.ipv4_address = None => t.device.ipv4_address = None
      /\ d.ipv4_address # None => /\ t.device.ipv4_address.public_address = d.ipv4_address.public_address
                                  /\ t.device.ipv4_address.private_address = d.ipv4_address.private_address
  BY <1>7, <1>8, DeviceKept
<1> DEFINE own == {d.ipv6_address} \cup
                  (IF d.ipv4_address = None THEN {}
                   ELSE {d.ipv4_address.public_address, d.ipv4_address.private_address})
<1>10. SrcIp(t) \in own \ {None}
  BY <1>5, <1>6, <1>9, NullAssumption DEF SrcIp
<1>11. DstIp(t) = DstIp(session)
  BY <1>1, <1>2, ServerKept
<1>12. Flows = map_ports_to_media_subcomponents(t)
  BY <1>2, ContextFlows DEF Flows
<1>13. \A f \in DOMAIN Flows : {Flows[f].fDescs[1].src, Flows[f].fDescs[1].dst} = {SrcIp(t), DstIp(session)}
  BY <1>11, <1>12, FlowAddresses
<1>14. \A f \in DOMAIN Flows : \E a \in own \ {None} :
         {Flows[f].fDescs[1].src, Flows[f].fDescs[1].dst} = {a, DstIp(session)}
  <2> HIDE DEF own
  <2> QED
    BY <1>10, <1>13
<1>15. /\ Has(context, "ueIpv4") => context["ueIpv4"] = d.ipv4_address.public_address
       /\ Has(context, "ueIpv6") => context["ueIpv6"] = d.ipv6_address
  BY <1>6, <1>9
<1> QED
  BY <1>1, <1>14, <1>15


\* The context sent to the PCF names the client's device, and its flows end there and at
\* the client's server.
THEOREM ContextSound == RestSpec => []ContextNamesDevice
<1>1. RestInit => CreationInv
  BY CreationInit
<1>2. CreationInv /\ [RestNext]_allVars => CreationInv'
  BY CreationNext
<1>3. CreationInv => ContextNamesDevice
  BY CreationDevice
<1> QED
  BY <1>1, <1>2, <1>3, PTL DEF RestSpec

\* The device's address in the flows is the session's.
LEMMA SourceKept ==
  ASSUME CreationInv, stage = "sent"
  PROVE  SrcIp(ParsedSession(message)) = SrcIp(session)
<1>1. PICK d, t : d = session.device /\ t = ParsedSession(message)
  OBVIOUS
<1>2. /\ message = build_pcf_request(session) /\ RequiredKeys \subseteq DOMAIN message
      /\ context = build_app_session_context(t) /\ validate_app_session_context(context)
  BY <1>1 DEF CreationInv, MessageInv, MessageGood
<1>3. PICK supi \in {None, Supi} : session = Made(request.body, supi)
  BY DEF CreationInv, SessionInv
<1>4. d = parse_device(Value(request.body, "device", None)) /\ session.ue_supi = supi
  BY <1>1, <1>3, MadeFields
<1>5. d # None /\ message["device"] = Json(convert_device_to_pcf(d, supi))
  BY <1>1, <1>2, <1>4, MessageKeys DEF RequiredKeys, Has
<1>6. t.device = ParsePcfDevice(message["device"])
  BY <1>1 DEF ParsedSession
<1>7. t.device # None
  <2>1. Has(context, "ueIpv4") \/ Has(context, "ueIpv6")
    BY <1>2, OneIdentifier
  <2> QED
    BY <1>2, <2>1, ContextKeys
<1>8. PICK j : j = convert_device_to_pcf(d, supi)
  OBVIOUS
<1>9. j # None /\ t.device = ParsePcfDevice(j)
  BY <1>5, <1>6, <1>7, <1>8 DEF Json, ParsePcfDevice
<1>10. Has(j, "ipv4Address") => ParsePcfDevice(j).ipv4_address # None
  <2>1. request \in {c.request : c \in Calls} /\ Readable(request)
    BY DEF CreationInv, RequestKnown, SessionInv
  <2> QED
    BY <1>4, <1>5, <1>8, <2>1, NullAssumption
<1>11. /\ t.device.ipv6_address = d.ipv6_address
       /\ d.ipv4_address = None <=> t.device.ipv4_address = None
       /\ d.ipv4_address # None => /\ t.device.ipv4_address.public_address = d.ipv4_address.public_address
                                   /\ t.device.ipv4_address.private_address = d.ipv4_address.private_address
  BY <1>8, <1>9, <1>10, DeviceKept
<1>12. SrcIp(t) = SrcIp(session)
  BY <1>1, <1>5, <1>7, <1>11 DEF SrcIp
<1> QED
  BY <1>1, <1>12

\* What the invariant of a creation says of its flows.
LEMMA CreationFlows ==
  ASSUME CreationInv
  PROVE  FlowsMeanPorts
<1>1. ASSUME stage = "apply_session_to_pcf"
      PROVE  Exact(map_ports_to_media_subcomponents(session), session)
  BY <1>1, SessionPorts, FlowsExact DEF CreationInv, SessionInv
<1>2. ASSUME stage = "sent"
      PROVE  Exact(Flows, Carried(session))
  <2>1. session.device_ports \in PortsSpec \cup {None} /\ PortsWritten(session.device_ports)
    BY <1>2, SessionPorts DEF CreationInv, SessionInv
  <2>2. message = build_pcf_request(session) /\ context = build_app_session_context(ParsedSession(message))
    BY <1>2 DEF CreationInv, MessageInv
  <2>3. PICK t, c : t = ParsedSession(message) /\ c = Carried(session)
    OBVIOUS
  <2>4. /\ t.device_ports \in PortsSpec \cup {None} /\ t.application_server_ports = None
        /\ \A n : Meant(t.device_ports, n) <=> Meant(c.device_ports, n)
    BY <2>1, <2>2, <2>3, MessagePorts
  <2>5. Flows = map_ports_to_media_subcomponents(t)
    BY <2>2, <2>3, ContextFlows DEF Flows
  <2>6. Exact(Flows, t)
    BY <2>4, <2>5, FlowsExact
  <2>7. /\ c.device = session.device /\ c.application_server = session.application_server
        /\ c.application_server_ports = None
    BY <2>3 DEF Carried
  <2>8. SrcIp(t) = SrcIp(c) /\ DstIp(t) = DstIp(c)
    <3>1. SrcIp(c) = SrcIp(session) /\ DstIp(c) = DstIp(session)
      BY <2>7 DEF SrcIp, DstIp
    <3> QED
      BY <1>2, <2>2, <2>3, <3>1, SourceKept, ServerKept
  <2>9. Wanted(t) = Wanted(c)
    BY <2>4, <2>7 DEF Wanted
  <2>10. Admitted(Flows, t) = Admitted(Flows, c)
    BY <2>8 DEF Admitted
  <2> QED
    BY <2>3, <2>6, <2>8, <2>9, <2>10 DEF Exact
<1> QED
  BY <1>1, <1>2 DEF FlowsMeanPorts

\* The flows built for a session name the traffic of its ports, and those sent to the PCF
\* the traffic of its single device ports, between the session's own ends: conversions in
\* both components included, the keyword of the direction left out.
THEOREM FlowsSound == RestSpec => []FlowsMeanPorts
<1>1. RestInit => CreationInv
  BY CreationInit
<1>2. CreationInv /\ [RestNext]_allVars => CreationInv'
  BY CreationNext
<1>3. CreationInv => FlowsMeanPorts
  BY CreationFlows
<1> QED
  BY <1>1, <1>2, <1>3, PTL DEF RestSpec

-----------------------------------------------------------------------------
(* What the southbound validation lets through *)

\* A property of the values of two objects is one of the values of their union.
LEMMA UnionValues ==
  ASSUME NEW f, NEW g, NEW V, \A k \in DOMAIN f : f[k] \in V, \A k \in DOMAIN g : g[k] \in V
  PROVE  \A k \in DOMAIN (f @@ g) : (f @@ g)[k] \in V
  BY DEF @@

\* An optional that is present has its value.
LEMMA OptionalValues ==
  ASSUME NEW key, NEW V, NEW v \in {None} \cup V
  PROVE  \A k \in DOMAIN Optional(key, v) : Optional(key, v)[k] \in V
  BY DEF Optional, NoKeys, :>

\* The rates of a profile are rates.
LEMMA RatesValid ==
  ASSUME NEW m, {m.max_downlink_rate, m.max_uplink_rate, m.guaranteed_downlink_rate, m.guaranteed_uplink_rate}
                  \subseteq {None} \cup ValidRates
  PROVE  \A f \in DOMAIN Bitrates(m) : Bitrates(m)[f] \in ValidRates
<1> DEFINE Good(f) == \A k \in DOMAIN f : f[k] \in ValidRates
<1>1. \A f, g : Good(f) /\ Good(g) => Good(f @@ g)
  BY UnionValues
<1>2. /\ m.max_downlink_rate \in {None} \cup ValidRates /\ m.max_uplink_rate \in {None} \cup ValidRates
      /\ m.guaranteed_downlink_rate \in {None} \cup ValidRates /\ m.guaranteed_uplink_rate \in {None} \cup ValidRates
  OBVIOUS
<1>3. \A key : /\ Good(Optional(key, m.max_downlink_rate)) /\ Good(Optional(key, m.max_uplink_rate))
               /\ Good(Optional(key, m.guaranteed_downlink_rate)) /\ Good(Optional(key, m.guaranteed_uplink_rate))
  BY <1>2, OptionalValues
<1>4. Good(NoKeys)
  BY DEF NoKeys
<1> HIDE DEF Good
<1>5. Good(Bitrates(m))
  BY <1>1, <1>3, <1>4, Zenon DEF Bitrates
<1> QED
  BY <1>5 DEF Good

\* There is a flow, and each is one description with valid attributes.
LEMMA SubComponentsValid ==
  ASSUME NEW s, s.device_ports \in PortsSpec \cup {None}, s.application_server_ports \in PortsSpec \cup {None}
  PROVE  LET F == map_ports_to_media_subcomponents(s)
         IN  DOMAIN F # {} /\ \A f \in DOMAIN F : validate_media_sub_component(F[f])
<1>1. PICK n, m : n = Len(DeviceSpecs(s)) /\ m = Len(ServerSpecs(s))
  OBVIOUS
<1>2. n \in Nat \ {0} /\ m \in Nat \ {0}
  <2>1. 0 \in Nat
    OBVIOUS
  <2> QED
    BY <1>1, <2>1, SpecsMean DEF DeviceSpecs, ServerSpecs
<1>3. DOMAIN map_ports_to_media_subcomponents(s) = 1 .. 2 * n * m
  BY <1>1 DEF map_ports_to_media_subcomponents, DeviceSpecs, ServerSpecs
<1>4. 1 \in 1 .. 2 * n * m
  BY <1>2
<1>5. ASSUME NEW f \in 1 .. 2 * n * m
      PROVE  validate_media_sub_component(map_ports_to_media_subcomponents(s)[f])
  <2>1. \E a, b, c, d : map_ports_to_media_subcomponents(s)[f] = SubComponent(f, a, b, c, d)
    BY <1>1 DEF map_ports_to_media_subcomponents, DeviceSpecs, ServerSpecs
  <2>2. PICK a, b, c, d : map_ports_to_media_subcomponents(s)[f] = SubComponent(f, a, b, c, d)
    BY <2>1
  <2>3. Len(SubComponent(f, a, b, c, d).fDescs) = 1
    BY DEF SubComponent
  <2>4. SubComponent(f, a, b, c, d).fStatus = "ENABLED" /\ SubComponent(f, a, b, c, d).flowUsage = "NO_INFO"
    BY DEF SubComponent
  <2> QED
    BY <2>2, <2>3, <2>4 DEF validate_media_sub_component, is_valid_flow_status, is_valid_flow_usage
<1> QED
  BY <1>3, <1>4, <1>5

\* The media component of a session with typed ports and a profile's mapping is valid.
LEMMA MediaComponentValid ==
  ASSUME NEW s, s.device_ports \in PortsSpec \cup {None}, s.application_server_ports \in PortsSpec \cup {None},
         NEW profile \in DOMAIN qos_profile_mappings_, s.mapping = qos_profile_mappings_[profile],
         s.mapping \in ValidMappings
  PROVE  \A n \in DOMAIN build_media_components(s) : validate_media_component(build_media_components(s)[n])
<1>1. PICK F : F = map_ports_to_media_subcomponents(s)
  OBVIOUS
<1>2. DOMAIN F # {} /\ \A f \in DOMAIN F : validate_media_sub_component(F[f])
  BY <1>1, SubComponentsValid
<1>3. /\ s.mapping.priority_level \in {None} \cup 1..16
      /\ {s.mapping.max_downlink_rate, s.mapping.max_uplink_rate,
          s.mapping.guaranteed_downlink_rate, s.mapping.guaranteed_uplink_rate} \subseteq {None} \cup ValidRates
  BY RequestAssumption
<1>4. PICK B : B = Bitrates(s.mapping)
  OBVIOUS
<1>5. \A f \in DOMAIN B : B[f] \in ValidRates
  BY <1>3, <1>4, RatesValid
<1>6. PICK t : t = MediaType(s.qos_profile)
  OBVIOUS
<1>7. is_valid_media_type(t)
  BY <1>6 DEF MediaType, is_valid_media_type
<1>8. build_media_components(s) =
        1 :> [medCompN |-> 1, fStatus |-> "ENABLED", medType |-> t, resPrio |-> s.mapping.priority_level,
              bitrates |-> B, medSubComps |-> F]
  BY <1>1, <1>4, <1>6 DEF build_media_components
<1>9. PICK c : c = [medCompN |-> 1, fStatus |-> "ENABLED", medType |-> t, resPrio |-> s.mapping.priority_level,
                    bitrates |-> B, medSubComps |-> F]
  OBVIOUS
<1>10. validate_media_component(c)
  BY <1>2, <1>3, <1>5, <1>7, <1>9
  DEF validate_media_component, is_valid_flow_status, is_valid_reservation_priority, is_valid_bitrate
<1> QED
  BY <1>8, <1>9, <1>10 DEF :>

\* A context for a device with valid addresses passes the validation.
LEMMA ContextValid ==
  ASSUME NEW s, s.device_ports \in PortsSpec \cup {None}, s.application_server_ports \in PortsSpec \cup {None},
         NEW profile \in DOMAIN qos_profile_mappings_, s.mapping = qos_profile_mappings_[profile],
         s.mapping \in ValidMappings, s.device # None,
         s.device.ipv4_address # None => s.device.ipv4_address.public_address \in ValidIpv4,
         s.device.ipv4_address = None => s.device.ipv6_address # None /\ s.device.ipv6_address \in ValidIpv6
  PROVE  validate_app_session_context(build_app_session_context(s))
<1>1. PICK c : c = build_app_session_context(s)
  OBVIOUS
<1>2. /\ Has(c, "ueIpv4") <=> s.device.ipv4_address # None
      /\ Has(c, "ueIpv4") => c["ueIpv4"] = s.device.ipv4_address.public_address
      /\ Has(c, "ueIpv6") <=> s.device.ipv4_address = None /\ s.device.ipv6_address # None
      /\ Has(c, "ueIpv6") => c["ueIpv6"] = s.device.ipv6_address
      /\ ~Has(c, "ueMac") /\ Has(c, "notifUri") /\ Has(c, "suppFeat")
      /\ c["servInfStatus"] = "PRELIMINARY" /\ c["evSubsc"] = build_subscription_info
      /\ c["medComponents"] = build_media_components(s)
  BY <1>1, ContextKeys
<1>3. validate_one_of_required(c, {"ueIpv4", "ueIpv6", "ueMac"})
  <2>1. PICK key : {f \in {"ueIpv4", "ueIpv6", "ueMac"} : Has(c, f)} = {key}
    <3>1. CASE s.device.ipv4_address # None
      <4>1. {f \in {"ueIpv4", "ueIpv6", "ueMac"} : Has(c, f)} = {"ueIpv4"}
        BY <1>2, <3>1
      <4> QED
        BY <4>1
    <3>2. CASE s.device.ipv4_address = None
      <4>1. {f \in {"ueIpv4", "ueIpv6", "ueMac"} : Has(c, f)} = {"ueIpv6"}
        BY <1>2, <3>2
      <4> QED
        BY <4>1
    <3> QED
      BY <3>1, <3>2
  <2> QED
    BY <2>1, FS_Singleton DEF validate_one_of_required
<1>4. validate_events_subscription_req_data(build_subscription_info)
  BY DEF validate_events_subscription_req_data, build_subscription_info, validate_af_event_subscription
<1>5. \A n \in DOMAIN build_media_components(s) : validate_media_component(build_media_components(s)[n])
  BY MediaComponentValid
<1>6. validate_app_session_context_req_data(c)
  BY <1>2, <1>3, <1>4, <1>5
  DEF validate_app_session_context_req_data, validate_required_fields, Has, is_valid_ipv4, is_valid_ipv6,
      is_valid_service_info_status
<1> QED
  BY <1>1, <1>6 DEF validate_app_session_context

\* QodPcfHandler refuses no session whose device has well-formed addresses.
LEMMA CreationAccepted ==
  ASSUME CreationInv
  PROVE  AcceptedIsSent
<1> SUFFICES ASSUME Refused, NEW d, d = session.device,
                    d # None, d.ipv4_address # None \/ d.ipv6_address # None,
                    d.ipv4_address # None => d.ipv4_address.public_address \in ValidIpv4,
                    d.ipv6_address # None => d.ipv6_address \in ValidIpv6,
                    session.qos_profile_mapping \in ValidMappings
             PROVE  FALSE
  BY DEF AcceptedIsSent, Refused
<1>1. PICK supi \in {None, Supi} : session = Made(request.body, supi)
  BY DEF CreationInv, SessionInv
<1>2. /\ Readable(request) /\ session.qos_profile \in DOMAIN qos_profile_mappings_
      /\ message = build_pcf_request(session)
  BY DEF CreationInv, SessionInv, MessageInv
<1>3. /\ d = parse_device(Value(request.body, "device", None)) /\ session.ue_supi = supi
      /\ session.qos_profile_mapping = qos_profile_mappings_[session.qos_profile]
  BY <1>1, MadeFields
<1>4. RequiredKeys \subseteq DOMAIN message /\ message["device"] = Json(convert_device_to_pcf(d, supi))
  BY <1>2, <1>3, MessageKeys DEF RequiredKeys, Has
<1>5. PICK j, t : j = convert_device_to_pcf(d, supi) /\ t = ParsedSession(message)
  OBVIOUS
<1>6. j # None /\ ParsePcfDevice(j) # None /\ (Has(j, "ipv4Address") => ParsePcfDevice(j).ipv4_address # None)
  <2>1. request \in {c.request : c \in Calls}
    BY DEF CreationInv, RequestKnown
  <2> QED
    BY <1>2, <1>3, <1>5, <2>1, NullAssumption
<1>7. LET p == ParsePcfDevice(j)
      IN  /\ p.ipv6_address = d.ipv6_address
          /\ Has(j, "ipv6Address") <=> d.ipv6_address # None
          /\ Has(j, "ipv4Address") <=> d.ipv4_address # None
          /\ d.ipv4_address = None => p.ipv4_address = None
          /\ d.ipv4_address # None => p.ipv4_address.public_address = d.ipv4_address.public_address
  BY <1>5, <1>6, DeviceKept
<1>8. message["device"] = j
  BY <1>4, <1>5, <1>7 DEF Json, Has
<1>9. /\ t.device = ParsePcfDevice(j) /\ t.mapping = qos_profile_mappings_[session.qos_profile]
      /\ ~MappingRefused(message)
  BY <1>2, <1>3, <1>5, <1>8, MessageKeys DEF ParsedSession, MappingRefused, validate_qos_mapping, Value, Has
<1>10. t.device_ports \in PortsSpec \cup {None} /\ t.application_server_ports \in PortsSpec \cup {None}
  <2>1. session.device_ports \in PortsSpec \cup {None} /\ PortsWritten(session.device_ports)
    BY <1>1, <1>2, SessionPorts
  <2> QED
    BY <1>2, <1>5, <2>1, MessagePorts
<1>11. validate_app_session_context(build_app_session_context(t))
  BY <1>2, <1>3, <1>6, <1>7, <1>9, <1>10, ContextValid
<1> QED
  BY <1>4, <1>5, <1>9, <1>11 DEF CreationInv, MessageInv, MessageGood


\* Northbound and southbound validations agree on devices with well-formed addresses and
\* profiles with a valid mapping.
THEOREM AcceptedSent == RestSpec => []AcceptedIsSent
<1>1. RestInit => CreationInv
  BY CreationInit
<1>2. CreationInv /\ [RestNext]_allVars => CreationInv'
  BY CreationNext
<1>3. CreationInv => AcceptedIsSent
  BY CreationAccepted
<1> QED
  BY <1>1, <1>2, <1>3, PTL DEF RestSpec

-----------------------------------------------------------------------------
(* Requests and their operations *)

OverHttp == call.transport = "http"

\* What the HTTP client is told with a status, of an effect and of the states seen.
Told(status, eff, sn) ==
  /\ status < 300 =>
       /\ \E e \in eff : e.op = Meaning
       /\ \A e \in eff : e.op = Meaning /\ e.consumer = call.consumer
                         /\ (e.op \in {"get", "delete", "extend"} => e.id = Named)
                         /\ (e.op # "create" /\ e.id # None => \E st \in sn : Own(st[e.id]))
  /\ status >= 400 => eff = {}
  /\ Meaning = "extend" /\ status = 404 => \E st \in sn : ~Own(Value(st, Named, None))
  /\ status = 409 => \E st \in sn : Own(st[Named]) /\ st[Named].status # "AVAILABLE"

\* The operation of a message type.
OperationOf(type) ==
  CASE type = "qod_create_session" -> "create"
    [] type = "qod_get_session" -> "get"
    [] type = "qod_delete_session" -> "delete"
    [] type = "qod_extend_session" -> "extend"
    [] type = "qod_retrieve_sessions" -> "retrieve"
    [] OTHER -> "none"

NamesSession == extract_session_id(incoming) = Named

\* The handler at work is the one of the operation, and knows its session.
HandlerInv ==
  OverHttp =>
    /\ stage = "route" => /\ incoming.message_type \in DOMAIN register_qod_handlers
                          /\ OperationOf(incoming.message_type) = Meaning
                          /\ Meaning \in {"get", "delete", "extend"} => NamesSession
    /\ stage \in {"QodHandler"} \cup CreationStages => Meaning = "create"
    /\ stage = "handle_get_session" => Meaning = "get" /\ NamesSession
    /\ stage = "handle_delete_session" => Meaning = "delete" /\ NamesSession
    /\ stage \in {"handle_extend_session", "extend_failed"} => Meaning = "extend" /\ NamesSession
    /\ stage = "handle_retrieve_sessions" => Meaning = "retrieve"

EffectInv ==
  /\ stage \notin {"reply", "done"} => effect = {} /\ stored \in seen
  /\ stage = "answered" => answer.status \in {400, 422}

ToldInv ==
  /\ stage = "reply" /\ OverHttp => Told(Value(reply.metadata, "status", 200), effect, seen)
  /\ stage = "done" => OverHttp /\ Told(response.status, effect, seen)

AnswerInv == HandlerInv /\ EffectInv /\ ToldInv


\* A path that matches a pattern with its parameter in the second place gives its
\* second segment, decoded, as the session's id.
LEMMA PathParameter ==
  ASSUME NEW pattern, NEW path, Matches(pattern, path), 2 \in DOMAIN pattern,
         \A i \in DOMAIN pattern : pattern[i] = Param <=> i = 2
  PROVE  LET p == extract_path_params(pattern, path)
         IN  DOMAIN p = {"sessionId"} /\ p["sessionId"] = Decode[path[2]]
<1>1. (CHOOSE i \in DOMAIN pattern : pattern[i] = Param) = 2
  OBVIOUS
<1>2. {"sessionId" : i \in {j \in DOMAIN pattern : pattern[j] = Param}} = {"sessionId"}
  OBVIOUS
<1> QED
  BY <1>1, <1>2 DEF extract_path_params

\* The parameter of the path is what the handlers find, whatever headers and query say.
LEMMA ParameterFound ==
  ASSUME RequestKnown, OverHttp, NEW type, NEW pattern,
         2 \in DOMAIN call.path,
         LET p == extract_path_params(pattern, call.path)
         IN  DOMAIN p = {"sessionId"} /\ p["sessionId"] = Decode[call.path[2]]
  PROVE  extract_session_id(http_request_to_message(type, pattern)) = Decode[call.path[2]]
<1>1. PICK p : p = extract_path_params(pattern, call.path)
  OBVIOUS
<1>2. PICK q : q = extract_query_params(call.query)
  OBVIOUS
<1>3. "sessionId" \notin DOMAIN q
  BY <1>2, CallAssumption DEF RequestKnown, OverHttp, extract_query_params
<1>4. PICK h : http_request_to_message(type, pattern).metadata = ("http_method" :> call.method) @@ q @@ p @@ h
  BY <1>1, <1>2 DEF http_request_to_message
<1>5. PICK m : m = ("http_method" :> call.method) @@ q @@ p @@ h
  OBVIOUS
<1>6. Has(m, "sessionId") /\ m["sessionId"] = p["sessionId"]
  BY <1>1, <1>3, <1>5 DEF Has, @@, :>
<1>7. Decode[call.path[2]] # ""
  BY CallAssumption DEF RequestKnown, OverHttp
<1> QED
  BY <1>1, <1>4, <1>5, <1>6, <1>7 DEF extract_session_id, Value

\* The patterns of the endpoints, by their segments.
LEMMA PatternSegments ==
  \A a, b, c : /\ Len(<<a>>) = 1 /\ DOMAIN <<a>> = 1 .. 1 /\ <<a>>[1] = a
               /\ Len(<<a, b>>) = 2 /\ DOMAIN <<a, b>> = 1 .. 2 /\ <<a, b>>[1] = a /\ <<a, b>>[2] = b
               /\ Len(<<a, b, c>>) = 3 /\ DOMAIN <<a, b, c>> = 1 .. 3
               /\ <<a, b, c>>[1] = a /\ <<a, b, c>>[2] = b /\ <<a, b, c>>[3] = c
  OBVIOUS

\* The parameter in a pattern is none of the fixed segments.
LEMMA ParamIsNoSegment == Param \notin {"sessions", "retrieve-sessions", "extend"}
  BY DEF Param

\* Every endpoint's type stands for the operation that its method and path mean.
LEMMA EndpointMeaning ==
  ASSUME RequestKnown, OverHttp, NEW e \in register_endpoints,
         e.method = call.method, Matches(e.pattern, call.path)
  PROVE  /\ e.type \in DOMAIN register_qod_handlers /\ OperationOf(e.type) = Meaning
         /\ Meaning \in {"get", "delete", "extend"} =>
              extract_session_id(http_request_to_message(e.type, e.pattern)) = Named
<1>1. PICK path \in Seq(STRING) : path = call.path
  BY CallAssumption DEF RequestKnown, OverHttp
<1>2. PICK p : p = e.pattern
  OBVIOUS
<1>20. Len(p) = Len(path) /\ \A i \in 1 .. Len(path) : p[i] = Param \/ p[i] = path[i]
  BY <1>1, <1>2 DEF Matches
<1>3. DOMAIN register_qod_handlers = {"qod_create_session", "qod_get_session", "qod_delete_session",
                                      "qod_extend_session", "qod_retrieve_sessions"}
  BY DEF register_qod_handlers, @@, :>
<1>4. CASE e = Endpoint("POST", <<"sessions">>, "qod_create_session")
  <2>1. e.method = "POST" /\ e.pattern = <<"sessions">> /\ e.type = "qod_create_session"
    BY <1>4 DEF Endpoint
  <2>2. Len(path) = 1 /\ path[1] = "sessions"
    <3>1. Len(p) = 1 /\ p[1] = "sessions"
      BY <1>2, <2>1, PatternSegments
    <3> QED
      BY <1>20, <3>1, ParamIsNoSegment
  <2>3. path = <<"sessions">>
    BY <2>2
  <2> QED
    BY <1>1, <1>3, <2>1, <2>3 DEF Meaning, OperationOf
<1>5. CASE e = Endpoint("POST", <<"retrieve-sessions">>, "qod_retrieve_sessions")
  <2>1. e.method = "POST" /\ e.pattern = <<"retrieve-sessions">> /\ e.type = "qod_retrieve_sessions"
    BY <1>5 DEF Endpoint
  <2>2. Len(path) = 1 /\ path[1] = "retrieve-sessions"
    <3>1. Len(p) = 1 /\ p[1] = "retrieve-sessions"
      BY <1>2, <2>1, PatternSegments
    <3> QED
      BY <1>20, <3>1, ParamIsNoSegment
  <2>3. path = <<"retrieve-sessions">>
    BY <2>2
  <2> QED
    BY <1>1, <1>3, <2>1, <2>3 DEF Meaning, OperationOf
<1>6. ASSUME NEW method, NEW type, e = Endpoint(method, <<"sessions", Param>>, type)
      PROVE  /\ e.method = method /\ e.type = type
             /\ Len(path) = 2 /\ path[1] = "sessions"
             /\ extract_session_id(http_request_to_message(e.type, e.pattern)) = Named
  <2>1. e.method = method /\ e.pattern = <<"sessions", Param>> /\ e.type = type
    BY <1>6 DEF Endpoint
  <2>20. Len(p) = 2 /\ DOMAIN p = 1 .. 2 /\ p[1] = "sessions" /\ p[2] = Param
    BY <1>2, <2>1, PatternSegments
  <2>2. Len(path) = 2 /\ path[1] = "sessions"
    BY <1>20, <2>20, ParamIsNoSegment
  <2>3. 2 \in DOMAIN e.pattern /\ \A i \in DOMAIN e.pattern : e.pattern[i] = Param <=> i = 2
    BY <1>2, <2>20, ParamIsNoSegment
  <2>4. extract_session_id(http_request_to_message(e.type, e.pattern)) = Decode[call.path[2]]
    <3>1. 2 \in DOMAIN call.path
      BY <1>1, <2>2
    <3> QED
      BY <2>3, <3>1, PathParameter, ParameterFound
  <2> QED
    BY <1>1, <2>1, <2>2, <2>4 DEF Named
<1>7. CASE e = Endpoint("GET", <<"sessions", Param>>, "qod_get_session")
  BY <1>1, <1>3, <1>6, <1>7 DEF Meaning, OperationOf
<1>8. CASE e = Endpoint("DELETE", <<"sessions", Param>>, "qod_delete_session")
  BY <1>1, <1>3, <1>6, <1>8 DEF Meaning, OperationOf
<1>9. CASE e = Endpoint("POST", <<"sessions", Param, "extend">>, "qod_extend_session")
  <2>1. e.method = "POST" /\ e.pattern = <<"sessions", Param, "extend">> /\ e.type = "qod_extend_session"
    BY <1>9 DEF Endpoint
  <2>20. Len(p) = 3 /\ DOMAIN p = 1 .. 3 /\ p[1] = "sessions" /\ p[2] = Param /\ p[3] = "extend"
    BY <1>2, <2>1, PatternSegments
  <2>2. Len(path) = 3 /\ path[1] = "sessions" /\ path[3] = "extend"
    BY <1>20, <2>20, ParamIsNoSegment
  <2>3. 2 \in DOMAIN e.pattern /\ \A i \in DOMAIN e.pattern : e.pattern[i] = Param <=> i = 2
    BY <1>2, <2>20, ParamIsNoSegment
  <2>4. extract_session_id(http_request_to_message(e.type, e.pattern)) = Decode[call.path[2]]
    <3>1. 2 \in DOMAIN call.path
      BY <1>1, <2>2
    <3> QED
      BY <2>3, <3>1, PathParameter, ParameterFound
  <2> QED
    BY <1>1, <1>3, <2>1, <2>2, <2>4 DEF Meaning, OperationOf, Named
<1> QED
  BY <1>4, <1>5, <1>7, <1>8, <1>9 DEF register_endpoints

\* The extension of a session has its endpoint.
LEMMA ExtendHasEndpoint ==
  ASSUME RequestKnown, OverHttp, Meaning = "extend"
  PROVE  \E e \in register_endpoints : e.method = call.method /\ Matches(e.pattern, call.path)
<1>1. PICK path \in Seq(STRING) : path = call.path
  BY CallAssumption DEF RequestKnown, OverHttp
<1>2. Len(path) = 3 /\ path[1] = "sessions" /\ path[3] = "extend" /\ call.method = "POST"
  BY <1>1 DEF Meaning
<1>3. PICK pattern : pattern = <<"sessions", Param, "extend">>
  OBVIOUS
<1>4. Matches(pattern, path)
  <2>1. Len(pattern) = 3 /\ pattern[1] = "sessions" /\ pattern[2] = Param /\ pattern[3] = "extend"
    BY <1>3, PatternSegments
  <2>2. DOMAIN path = 1 .. 3
    BY <1>2
  <2> QED
    BY <1>2, <2>1, <2>2 DEF Matches
<1>5. Endpoint("POST", pattern, "qod_extend_session") \in register_endpoints
  BY <1>3 DEF register_endpoints
<1> QED
  BY <1>1, <1>2, <1>4, <1>5 DEF Endpoint


\* Nothing has been done for a request that was just received.
LEMMA AnswerInit == RestInit => AnswerInv
  BY DEF RestInit, AnswerInv, HandlerInv, EffectInv, ToldInv, CreationStages

\* The request means the same throughout.
LEMMA SameMeaning ==
  ASSUME call' = call
  PROVE  Meaning' = Meaning /\ Named' = Named /\ OverHttp' = OverHttp
  BY DEF Meaning, Named, OverHttp

\* The reply of a handler, or the response, to be judged.
LEMMA ReplyTold ==
  ASSUME call' = call, stage' = "reply", OverHttp => Told(Value(reply'.metadata, "status", 200), effect', seen')
  PROVE  AnswerInv'
<1>1. Meaning' = Meaning /\ Named' = Named /\ OverHttp' = OverHttp
  BY SameMeaning
<1>2. ToldInv'
  BY <1>1 DEF ToldInv, Told, Own
<1> QED
  BY <1>2 DEF AnswerInv, HandlerInv, EffectInv, CreationStages

\* The same of the response.
LEMMA DoneTold ==
  ASSUME call' = call, stage' = "done", OverHttp, Told(response'.status, effect', seen')
  PROVE  AnswerInv'
<1>1. Meaning' = Meaning /\ Named' = Named /\ OverHttp' = OverHttp
  BY SameMeaning
<1>2. ToldInv'
  BY <1>1 DEF ToldInv, Told, Own
<1> QED
  BY <1>2 DEF AnswerInv, HandlerInv, EffectInv, CreationStages

\* An error after which nothing has happened is a true answer.
LEMMA ErrorTold ==
  ASSUME NEW status \in {400, 404, 422}, NEW sn, status = 404 => Meaning # "extend"
  PROVE  Told(status, {}, sn)
  BY DEF Told

\* The status that message_to_http_response reads in an error.
LEMMA ErrorReply ==
  ASSUME NEW status, create_error_response(status)
  PROVE  stage' = "reply" /\ Value(reply'.metadata, "status", 200) = status
  BY DEF create_error_response, Reply, Value, Has, :>

\* And in a success.
LEMMA SuccessReply ==
  ASSUME NEW status, NEW body, create_success_response(body, status)
  PROVE  stage' = "reply" /\ Value(reply'.metadata, "status", 200) = status
  BY DEF create_success_response, Reply, Value, Has, :>

\* The session a handler was given is its consumer's and was seen.
LEMMA SessionSeen ==
  ASSUME stored \in seen, NEW id, get_session(id, call.consumer) # None
  PROVE  \E st \in seen : Own(st[id])
  BY DEF get_session, Value, Has, Own

\* The way to the handler.
LEMMA EndpointNext ==
  ASSUME CreationInv, AnswerInv, create_handler
  PROVE  AnswerInv'
<1>1. call' = call /\ effect' = effect /\ seen' = seen /\ stored' = stored /\ OverHttp /\ effect = {} /\ stored \in seen
  BY DEF create_handler, AnswerInv, EffectInv, OverHttp
<1>2. RequestKnown
  BY DEF CreationInv
<1> DEFINE found == {e \in register_endpoints : e.method = call.method /\ Matches(e.pattern, call.path)}
<1>3. CASE found = {} /\ response' = [status |-> 404, correlator |-> None] /\ stage' = "done"
  <2>1. Meaning # "extend"
    BY <1>1, <1>2, <1>3, ExtendHasEndpoint
  <2>2. Told(404, {}, seen)
    BY <2>1, ErrorTold
  <2> QED
    BY <1>1, <1>3, <2>2, DoneTold
<1>4. ASSUME NEW e \in found, incoming' = http_request_to_message(e.type, e.pattern), stage' = "route"
      PROVE  AnswerInv'
  <2>1. /\ e.type \in DOMAIN register_qod_handlers /\ OperationOf(e.type) = Meaning
        /\ Meaning \in {"get", "delete", "extend"} =>
             extract_session_id(http_request_to_message(e.type, e.pattern)) = Named
    BY <1>1, <1>2, EndpointMeaning
  <2>2. incoming'.message_type = e.type
    BY <1>4 DEF http_request_to_message
  <2>3. Meaning' = Meaning /\ Named' = Named
    BY <1>1, SameMeaning
  <2>4. NamesSession' <=> extract_session_id(incoming') = Named
    BY <2>3 DEF NamesSession, extract_session_id
  <2>5. HandlerInv'
    BY <1>4, <2>1, <2>2, <2>3, <2>4 DEF HandlerInv, CreationStages, OperationOf
  <2> QED
    BY <1>1, <1>4, <2>5 DEF AnswerInv, EffectInv, ToldInv
<1> QED
  BY <1>3, <1>4 DEF create_handler

\* A message of another transport gets no HTTP response.
LEMMA MessageNext ==
  ASSUME AnswerInv, process_message
  PROVE  AnswerInv'
<1>1. ~OverHttp' /\ effect' = effect /\ seen' = seen /\ stored' = stored /\ stage = "received" /\ stage' = "route"
  BY DEF process_message, OverHttp
<1> QED
  BY <1>1 DEF AnswerInv, HandlerInv, EffectInv, ToldInv

\* RequestRouter finds the handler of the type.
LEMMA RouteNext ==
  ASSUME AnswerInv, route_message
  PROVE  AnswerInv'
<1>1. /\ call' = call /\ effect' = effect /\ seen' = seen /\ stored' = stored /\ incoming' = incoming
      /\ stage = "route"
  BY DEF route_message
<1>2. Meaning' = Meaning /\ Named' = Named /\ OverHttp' = OverHttp
  BY <1>1, SameMeaning
<1>3. NamesSession' <=> NamesSession
  BY <1>1, <1>2 DEF NamesSession, extract_session_id
<1>4. DOMAIN register_qod_handlers = {"qod_create_session", "qod_get_session", "qod_delete_session",
                                      "qod_extend_session", "qod_retrieve_sessions"}
  BY DEF register_qod_handlers, @@, :>
<1>5. CASE OverHttp
  <2>1. /\ incoming.message_type \in DOMAIN register_qod_handlers
        /\ OperationOf(incoming.message_type) = Meaning
        /\ Meaning \in {"get", "delete", "extend"} => NamesSession
    BY <1>1, <1>5 DEF AnswerInv, HandlerInv
  <2>2. stage' = handlers_[incoming.message_type]
    BY <1>4, <2>1, HandlerOf DEF route_message, Has
  <2>3. HandlerInv' /\ stage' \notin {"reply", "done", "answered"}
    BY <1>2, <1>3, <1>4, <2>1, <2>2, HandlerOf DEF HandlerInv, CreationStages, OperationOf
  <2> QED
    BY <1>1, <2>3 DEF AnswerInv, EffectInv, ToldInv
<1>6. CASE ~OverHttp
  <2>1. stage' \notin {"done", "answered"}
    BY HandlerOf DEF route_message, create_default_handler, Reply, Has
  <2> QED
    BY <1>1, <1>2, <1>6, <2>1 DEF AnswerInv, HandlerInv, EffectInv, ToldInv
<1> QED
  BY <1>5, <1>6

\* RestRouter hands on the status of the reply.
LEMMA ResponseNext ==
  ASSUME AnswerInv, message_to_http_response
  PROVE  AnswerInv'
<1>1. /\ call' = call /\ effect' = effect /\ seen' = seen /\ stage = "reply" /\ stage' = "done" /\ OverHttp
      /\ response'.status = Value(reply.metadata, "status", 200)
  BY DEF message_to_http_response, OverHttp
<1>2. Told(response'.status, effect', seen')
  BY <1>1 DEF AnswerInv, ToldInv
<1> QED
  BY <1>1, <1>2, DoneTold


\* One operation on a session of the consumer, as its request means it.
LEMMA DoneOnSession ==
  ASSUME NEW op \in {"get", "delete", "extend"}, Meaning = op, NamesSession, stored \in seen,
         get_session(extract_session_id(incoming), call.consumer) # None
  PROVE  Told(200, {[op |-> op, id |-> extract_session_id(incoming), consumer |-> call.consumer]}, seen)
<1>1. PICK id : id = extract_session_id(incoming)
  OBVIOUS
<1>2. id = Named
  BY <1>1 DEF NamesSession
<1>3. \E st \in seen : Own(st[id])
  BY <1>1, SessionSeen
<1> QED
  BY <1>1, <1>2, <1>3 DEF Told

\* Did, from no effect.
LEMMA OnlyEffect ==
  ASSUME NEW op, NEW id, effect = {}, Did(op, id)
  PROVE  effect' = {[op |-> op, id |-> id, consumer |-> call.consumer]}
  BY DEF Did

\* A read: an answer for every way through handle_get_session.
LEMMA GetNext ==
  ASSUME AnswerInv, handle_get_session
  PROVE  AnswerInv'
<1>1. call' = call /\ seen' = seen /\ effect = {} /\ stored \in seen
  BY DEF handle_get_session, AnswerInv, EffectInv
<1>2. OverHttp => Meaning = "get" /\ NamesSession
  BY DEF handle_get_session, AnswerInv, HandlerInv
<1>3. PICK id, s : id = extract_session_id(incoming) /\ s = get_session(id, call.consumer)
  OBVIOUS
<1>4. ASSUME NEW status \in {400, 404}, create_error_response(status), effect' = effect
      PROVE  AnswerInv'
  <2>1. OverHttp => Told(status, {}, seen)
    BY <1>2, ErrorTold
  <2> QED
    BY <1>1, <1>4, <2>1, ErrorReply, ReplyTold
<1>5. ASSUME s # None, NEW body, create_success_response(body, 200), Did("get", id)
      PROVE  AnswerInv'
  <2>1. OverHttp => Told(200, {[op |-> "get", id |-> id, consumer |-> call.consumer]}, seen)
    BY <1>1, <1>2, <1>3, <1>5, DoneOnSession
  <2>2. effect' = {[op |-> "get", id |-> id, consumer |-> call.consumer]}
    BY <1>1, <1>5, OnlyEffect
  <2>3. stage' = "reply" /\ Value(reply'.metadata, "status", 200) = 200
    BY <1>5, SuccessReply
  <2> QED
    BY <1>1, <2>1, <2>2, <2>3, ReplyTold
<1>6. \/ create_error_response(400) /\ effect' = effect
      \/ create_error_response(404) /\ effect' = effect
      \/ s # None /\ create_success_response(session_to_json(s, s.device # None), 200) /\ Did("get", id)
  BY <1>3 DEF handle_get_session
<1> QED
  BY <1>4, <1>5, <1>6

\* A deletion; its reply has no status, which makes it a 200.
LEMMA DeleteNext ==
  ASSUME AnswerInv, handle_delete_session
  PROVE  AnswerInv'
<1>1. call' = call /\ seen' = seen /\ effect = {} /\ stored \in seen
  BY DEF handle_delete_session, AnswerInv, EffectInv
<1>2. OverHttp => Meaning = "delete" /\ NamesSession
  BY DEF handle_delete_session, AnswerInv, HandlerInv
<1>3. PICK id, s : id = extract_session_id(incoming) /\ s = get_session(id, call.consumer)
  OBVIOUS
<1>4. ASSUME create_error_response(400), effect' = effect
      PROVE  AnswerInv'
  <2>1. OverHttp => Told(400, {}, seen)
    BY ErrorTold
  <2> QED
    BY <1>1, <1>4, <2>1, ErrorReply, ReplyTold
<1>5. ASSUME s # None, Reply("qod_delete_session_response", "http_status" :> 204, None), Did("delete", id)
      PROVE  AnswerInv'
  <2>1. OverHttp => Told(200, {[op |-> "delete", id |-> id, consumer |-> call.consumer]}, seen)
    BY <1>1, <1>2, <1>3, <1>5, DoneOnSession
  <2>2. effect' = {[op |-> "delete", id |-> id, consumer |-> call.consumer]}
    BY <1>1, <1>5, OnlyEffect
  <2>3. stage' = "reply" /\ Value(reply'.metadata, "status", 200) = 200
    BY <1>5 DEF Reply, Value, Has, :>
  <2> QED
    BY <1>1, <2>1, <2>2, <2>3, ReplyTold
<1>6. \/ create_error_response(400) /\ effect' = effect
      \/ s # None /\ Reply("qod_delete_session_response", "http_status" :> 204, None) /\ Did("delete", id)
  BY <1>3 DEF handle_delete_session
<1> QED
  BY <1>4, <1>5, <1>6

\* An extension, or its first failure.
LEMMA ExtendNext ==
  ASSUME AnswerInv, handle_extend_session
  PROVE  AnswerInv'
<1>1. call' = call /\ incoming' = incoming /\ seen' = seen /\ effect = {} /\ stored \in seen
  BY DEF handle_extend_session, AnswerInv, EffectInv
<1>2. OverHttp => Meaning = "extend" /\ NamesSession
  BY DEF handle_extend_session, AnswerInv, HandlerInv
<1>3. PICK id, s : id = extract_session_id(incoming) /\ s = get_session(id, call.consumer)
  OBVIOUS
<1>4. ASSUME create_error_response(400), effect' = effect
      PROVE  AnswerInv'
  <2>1. OverHttp => Told(400, {}, seen)
    BY ErrorTold
  <2> QED
    BY <1>1, <1>4, <2>1, ErrorReply, ReplyTold
<1>5. ASSUME s # None, NEW body, create_success_response(body, 200), Did("extend", id)
      PROVE  AnswerInv'
  <2>1. OverHttp => Told(200, {[op |-> "extend", id |-> id, consumer |-> call.consumer]}, seen)
    BY <1>1, <1>2, <1>3, <1>5, DoneOnSession
  <2>2. effect' = {[op |-> "extend", id |-> id, consumer |-> call.consumer]}
    BY <1>1, <1>5, OnlyEffect
  <2>3. stage' = "reply" /\ Value(reply'.metadata, "status", 200) = 200
    BY <1>5, SuccessReply
  <2> QED
    BY <1>1, <2>1, <2>2, <2>3, ReplyTold
<1>6. ASSUME stage' = "extend_failed", stored' = stored, effect' = effect
      PROVE  AnswerInv'
  <2>1. Meaning' = Meaning /\ Named' = Named /\ OverHttp' = OverHttp
    BY <1>1, SameMeaning
  <2>2. NamesSession' <=> NamesSession
    BY <1>1, <2>1 DEF NamesSession, extract_session_id
  <2> QED
    BY <1>1, <1>2, <1>6, <2>1, <2>2 DEF AnswerInv, HandlerInv, EffectInv, ToldInv, CreationStages
<1>7. \/ create_error_response(400) /\ effect' = effect
      \/ stage' = "extend_failed" /\ stored' = stored /\ effect' = effect
      \/ \E body : s # None /\ create_success_response(body, 200) /\ Did("extend", id)
  BY <1>3 DEF handle_extend_session
<1> QED
  BY <1>4, <1>5, <1>6, <1>7

\* The session read a second time was seen.
LEMMA ClassifyNext ==
  ASSUME AnswerInv, ClassifyFailure
  PROVE  AnswerInv'
<1>1. call' = call /\ seen' = seen /\ effect' = {} /\ stored \in seen
  BY DEF ClassifyFailure, AnswerInv, EffectInv
<1>2. OverHttp => Meaning = "extend" /\ NamesSession
  BY DEF ClassifyFailure, AnswerInv, HandlerInv
<1>3. PICK id, s : id = extract_session_id(incoming) /\ s = get_session(id, call.consumer)
  OBVIOUS
<1>4. PICK status : status = IF s = None THEN 404 ELSE IF s.status # "AVAILABLE" THEN 409 ELSE 400
  OBVIOUS
<1>5. create_error_response(status)
  BY <1>3, <1>4 DEF ClassifyFailure
<1>6. OverHttp => Told(status, {}, seen)
  <2> SUFFICES ASSUME OverHttp PROVE Told(status, {}, seen)
    OBVIOUS
  <2>1. id = Named
    BY <1>2, <1>3 DEF NamesSession
  <2>2. s = None => ~Own(Value(stored, Named, None))
    BY <1>3, <2>1 DEF get_session, Own
  <2>3. s # None => Own(stored[Named]) /\ stored[Named] = s
    BY <1>3, <2>1 DEF get_session, Own, Value
  <2> QED
    BY <1>1, <1>4, <2>2, <2>3 DEF Told
<1> QED
  BY <1>1, <1>5, <1>6, ErrorReply, ReplyTold

\* A retrieval lists sessions of the consumer only.
LEMMA RetrieveNext ==
  ASSUME AnswerInv, handle_retrieve_sessions
  PROVE  AnswerInv'
<1>1. call' = call /\ seen' = seen /\ effect = {} /\ stored \in seen
  BY DEF handle_retrieve_sessions, AnswerInv, EffectInv
<1>2. OverHttp => Meaning = "retrieve"
  BY DEF handle_retrieve_sessions, AnswerInv, HandlerInv
<1>3. ASSUME NEW status \in {400, 422}, create_error_response(status), effect' = effect
      PROVE  AnswerInv'
  <2>1. OverHttp => Told(status, {}, seen)
    BY ErrorTold
  <2> QED
    BY <1>1, <1>3, <2>1, ErrorReply, ReplyTold
<1>4. ASSUME NEW device, create_success_response(None, 200),
             effect' = {[op |-> "retrieve", id |-> id, consumer |-> call.consumer] :
                          id \in {None} \cup retrieve_sessions_by_device(device, call.consumer)}
      PROVE  AnswerInv'
  <2>1. \A id \in retrieve_sessions_by_device(device, call.consumer) : Own(stored[id])
    BY DEF retrieve_sessions_by_device, Own
  <2>2. \A e \in effect' : /\ e.op = "retrieve" /\ e.consumer = call.consumer
                           /\ e.id # None => \E st \in seen : Own(st[e.id])
    BY <1>1, <1>4, <2>1
  <2>3. \E e \in effect' : e.op = "retrieve"
    <3>1. [op |-> "retrieve", id |-> None, consumer |-> call.consumer] \in effect'
      BY <1>4
    <3> QED
      BY <3>1
  <2>4. OverHttp => Told(200, effect', seen')
    BY <1>1, <1>2, <2>2, <2>3 DEF Told
  <2>5. stage' = "reply" /\ Value(reply'.metadata, "status", 200) = 200
    BY <1>4, SuccessReply
  <2> QED
    BY <1>1, <2>4, <2>5, ReplyTold
<1> QED
  BY <1>3, <1>4 DEF handle_retrieve_sessions

\* A creation is answered 201 or with the error that ended it.
LEMMA CreateReplyNext ==
  ASSUME AnswerInv, CreateReply
  PROVE  AnswerInv'
<1>1. call' = call /\ seen' = seen /\ effect = {} /\ stage \in {"sent", "answered"}
  BY DEF CreateReply, AnswerInv, EffectInv
<1>2. OverHttp => Meaning = "create"
  BY <1>1 DEF AnswerInv, HandlerInv, CreationStages
<1>3. ASSUME NEW body, Did("create", None), create_success_response(body, 201)
      PROVE  AnswerInv'
  <2>1. effect' = {[op |-> "create", id |-> None, consumer |-> call.consumer]}
    BY <1>1, <1>3, OnlyEffect
  <2>2. OverHttp => Told(201, effect', seen')
    BY <1>2, <2>1 DEF Told
  <2>3. stage' = "reply" /\ Value(reply'.metadata, "status", 200) = 201
    BY <1>3, SuccessReply
  <2> QED
    BY <1>1, <2>2, <2>3, ReplyTold
<1>4. ASSUME stage = "answered", create_error_response(answer.status), effect' = effect
      PROVE  AnswerInv'
  <2>1. answer.status \in {400, 422}
    BY <1>4 DEF AnswerInv, EffectInv
  <2>2. OverHttp => Told(answer.status, {}, seen)
    BY <2>1, ErrorTold
  <2> QED
    BY <1>1, <1>4, <2>2, ErrorReply, ReplyTold
<1>5. \/ \E body : Did("create", None) /\ create_success_response(body, 201)
      \/ stage = "answered" /\ create_error_response(answer.status) /\ effect' = effect
  BY <1>1 DEF CreateReply
<1> QED
  BY <1>3, <1>4, <1>5

\* The steps of a creation do nothing that an answer tells, and end in 400 or 422.
LEMMA CreateStepNext ==
  ASSUME AnswerInv, CreateStep
  PROVE  AnswerInv'
<1>1. call' = call /\ incoming' = incoming /\ effect' = effect /\ seen' = seen /\ stored' = stored
  BY DEF CreateStep, restVars
<1>2. stage \in {"QodHandler"} \cup CreationStages /\ stage' \in CreationStages
  BY DEF CreateStep, handle_create_session, create_session, apply_session_to_pcf,
         handle_qod_create_pcf_session, Finish, CreationStages
<1>3. Meaning' = Meaning /\ OverHttp' = OverHttp
  BY <1>1, SameMeaning
<1>4. HandlerInv'
  BY <1>2, <1>3 DEF AnswerInv, HandlerInv, CreationStages
<1>5. ASSUME stage' = "answered"
      PROVE  answer'.status \in {400, 422}
  <2>1. CASE handle_create_session
    <3>1. PICK error : error = IF request.body \in {None, Unparseable} THEN Error(400, "INVALID_ARGUMENT")
                               ELSE FirstError(CreateChecks(request))
      OBVIOUS
    <3>2. error = None \/ (error # None /\ error.status \in {400, 422})
      BY <3>1, CreateErrors DEF Refusals, Error
    <3>3. error # None /\ answer' = error
      BY <1>5, <2>1, <3>1 DEF handle_create_session, Finish
    <3> QED
      BY <3>2, <3>3
  <2>2. CASE create_session
    BY <1>5, <2>2 DEF create_session, Finish, Error
  <2>3. CASE apply_session_to_pcf
    BY <1>5, <2>3 DEF apply_session_to_pcf
  <2>4. CASE handle_qod_create_pcf_session
    BY <1>5, <2>4 DEF handle_qod_create_pcf_session, Finish, Error
  <2> QED
    BY <2>1, <2>2, <2>3, <2>4 DEF CreateStep
<1> QED
  BY <1>1, <1>2, <1>4, <1>5 DEF AnswerInv, EffectInv, ToldInv, CreationStages

\* What others do to a session is seen.
LEMMA OthersNext ==
  ASSUME AnswerInv, OthersAct
  PROVE  AnswerInv'
<1>1. /\ call' = call /\ incoming' = incoming /\ effect' = effect /\ stored' \in seen'
      /\ stage = "extend_failed" /\ stage' = stage
  BY DEF OthersAct
<1>2. Meaning' = Meaning /\ Named' = Named /\ OverHttp' = OverHttp
  BY <1>1, SameMeaning
<1>3. NamesSession' <=> NamesSession
  BY <1>1, <1>2 DEF NamesSession, extract_session_id
<1> QED
  BY <1>1, <1>2, <1>3 DEF AnswerInv, HandlerInv, EffectInv, ToldInv, CreationStages

\* Every step keeps the invariant of the answers.
LEMMA AnswerNext ==
  ASSUME CreationInv, AnswerInv, [RestNext]_allVars
  PROVE  AnswerInv'
<1>1. CASE UNCHANGED allVars
  <2>1. Meaning' = Meaning /\ Named' = Named /\ OverHttp' = OverHttp
    BY <1>1, SameMeaning DEF allVars, restVars
  <2>2. NamesSession' <=> NamesSession
    BY <1>1, <2>1 DEF allVars, restVars, NamesSession, extract_session_id
  <2>3. HandlerInv'
    BY <1>1, <2>1, <2>2 DEF allVars, restVars, AnswerInv, HandlerInv, OperationOf
  <2>4. EffectInv'
    BY <1>1 DEF allVars, restVars, AnswerInv, EffectInv
  <2>5. CASE stage = "reply"
    BY <1>1, <2>5, ReplyTold DEF allVars, restVars, AnswerInv, ToldInv
  <2>6. CASE stage = "done"
    BY <1>1, <2>6, DoneTold DEF allVars, restVars, AnswerInv, ToldInv
  <2>7. CASE stage \notin {"reply", "done"}
    BY <1>1, <2>3, <2>4, <2>7 DEF allVars, AnswerInv, ToldInv
  <2> QED
    BY <2>5, <2>6, <2>7
<1>2. CASE RestNext
  BY <1>2, EndpointNext, MessageNext, RouteNext, ResponseNext, GetNext, DeleteNext, ExtendNext, ClassifyNext,
     RetrieveNext, CreateReplyNext, CreateStepNext, OthersNext DEF RestNext
<1> QED
  BY <1>1, <1>2


\* An answer to an HTTP request is true of what was done for it.
THEOREM AnswersTrue == RestSpec => []AnswerIsTrue
<1>1. RestInit => CreationInv /\ AnswerInv
  BY CreationInit, AnswerInit
<1>2. CreationInv /\ AnswerInv /\ [RestNext]_allVars => CreationInv' /\ AnswerInv'
  BY CreationNext, AnswerNext
<1>3. AnswerInv => AnswerIsTrue
  BY DEF AnswerInv, ToldInv, Told, AnswerIsTrue
<1> QED
  BY <1>1, <1>2, <1>3, PTL DEF RestSpec


-----------------------------------------------------------------------------
(* What an answer says of a session *)

\* Ports written and parsed again mean the same.
LEMMA PortsDescribed ==
  ASSUME NEW ports, PortsWritten(ports), NEW p
  PROVE  Meant(parse_ports(IF ports = None THEN None ELSE Json(PortLists(ports))), p) <=> Meant(ports, p)
<1>1. CASE ports = None
  BY <1>1 DEF parse_ports
<1>2. CASE ports # None
  <2>1. PICK j : j = PortLists(ports)
    OBVIOUS
  <2>2. /\ DOMAIN j = {} => ports.ranges = <<>> /\ ports.ports = <<>>
        /\ Value(j, "ranges", <<>>) = ports.ranges /\ Value(j, "ports", <<>>) = ports.ports
    BY <2>1 DEF PortLists, NonEmpty, NoKeys, Value, Has, @@, :>
  <2>3. CASE DOMAIN j = {}
    BY <1>2, <2>1, <2>2, <2>3 DEF Json, parse_ports, Meant
  <2>4. CASE DOMAIN j # {}
    <3>1. PICK q : q = parse_ports(Json(j))
      OBVIOUS
    <3>2. q # None /\ q = [ranges |-> ports.ranges, ports |-> ports.ports]
      BY <1>2, <2>1, <2>2, <2>4, <3>1 DEF PortsWritten, Json, parse_ports
    <3>3. q.ranges = ports.ranges /\ q.ports = ports.ports
      BY <3>2
    <3> QED
      BY <1>2, <2>1, <3>1, <3>2, <3>3 DEF Meant
  <2> QED
    BY <2>3, <2>4
<1> QED
  BY <1>1, <1>2


\* An IPv4 address written and parsed again is the same.
LEMMA AddressDescribed ==
  ASSUME NEW a, a = [public_address |-> a.public_address, private_address |-> a.private_address,
                     public_port |-> a.public_port]
  PROVE  LET j == ("publicAddress" :> a.public_address) @@ Optional("privateAddress", a.private_address)
                    @@ Optional("publicPort", a.public_port)
         IN  [public_address  |-> Value(j, "publicAddress", ""), private_address |-> Value(j, "privateAddress", None),
              public_port     |-> Value(j, "publicPort", None)] = a
<1>1. PICK j : j = ("publicAddress" :> a.public_address) @@ Optional("privateAddress", a.private_address)
                     @@ Optional("publicPort", a.public_port)
  OBVIOUS
<1>2. Value(j, "publicAddress", "") = a.public_address
  BY <1>1 DEF Value, Has, @@, :>
<1>3. Value(j, "privateAddress", None) = a.private_address /\ Value(j, "publicPort", None) = a.public_port
  BY <1>1 DEF Value, Has, Optional, NoKeys, @@, :>
<1> QED
  BY <1>1, <1>2, <1>3, Zenon

\* A device written and parsed again has the identifiers that were shown.
LEMMA DeviceDescribed ==
  ASSUME NEW shown, NEW device, Shows(shown, device), parse_device(device_to_json(shown)) # None
  PROVE  \A f \in DOMAIN parse_device(device_to_json(shown)) :
           parse_device(device_to_json(shown))[f] \in {None, device[f]}
<1>1. PICK j : j = device_to_json(shown)
  OBVIOUS
<1>2. PICK a : a = shown.ipv4_address
  OBVIOUS
<1>3. PICK u : u = ("publicAddress" :> a.public_address) @@ Optional("privateAddress", a.private_address)
                     @@ Optional("publicPort", a.public_port)
  OBVIOUS
<1>4. /\ Value(j, "phoneNumber", None) = shown.phone_number
      /\ Value(j, "networkAccessIdentifier", None) = shown.network_access_identifier
      /\ Value(j, "ipv6Address", None) = shown.ipv6_address
      /\ Has(j, "ipv4Address") <=> a # None
      /\ a # None => j["ipv4Address"] = u
  BY <1>1, <1>2, <1>3 DEF device_to_json, Value, Has, Optional, NoKeys, @@, :>
<1>5. PICK v : v = [public_address  |-> Value(u, "publicAddress", ""), private_address |-> Value(u, "privateAddress", None),
                    public_port     |-> Value(u, "publicPort", None)]
  OBVIOUS
<1>6. a # None => v = a
  BY <1>2, <1>3, <1>5, AddressDescribed DEF Shows
<1>7. parse_device(j) = [phone_number |-> shown.phone_number,
                         network_access_identifier |-> shown.network_access_identifier,
                         ipv4_address |-> shown.ipv4_address, ipv6_address |-> shown.ipv6_address]
  <2>1. (IF ~Has(j, "ipv4Address") THEN None
         ELSE [public_address  |-> Value(j["ipv4Address"], "publicAddress", ""),
               private_address |-> Value(j["ipv4Address"], "privateAddress", None),
               public_port     |-> Value(j["ipv4Address"], "publicPort", None)]) = a
    BY <1>4, <1>5, <1>6, Zenon
  <2> QED
    BY <1>1, <1>2, <1>4, <2>1, Zenon DEF parse_device
<1>8. PICK d : d = parse_device(j)
  OBVIOUS
<1>9. /\ DOMAIN d = {"phone_number", "network_access_identifier", "ipv4_address", "ipv6_address"}
      /\ \A f \in DOMAIN d : d[f] = shown[f]
  BY <1>7, <1>8
<1> QED
  BY <1>1, <1>8, <1>9 DEF Shows

\* The keys that session_to_json writes.
LEMMA SessionKeys ==
  ASSUME NEW s, NEW incl \in BOOLEAN
  PROVE  LET b == session_to_json(s, incl)
         IN  /\ b["qosProfile"] = s.qos_profile /\ b["duration"] = s.duration
             /\ b["applicationServer"] = (Optional("ipv4Address", s.application_server.ipv4_address)
                                            @@ Optional("ipv6Address", s.application_server.ipv6_address))
             /\ Value(b, "devicePorts", None) =
                  IF s.device_ports = None THEN None ELSE Json(PortLists(s.device_ports))
             /\ Value(b, "applicationServerPorts", None) =
                  IF s.application_server_ports = None THEN None ELSE Json(PortLists(s.application_server_ports))
             /\ Value(b, "device", None) =
                  IF incl /\ s.device_response # None THEN device_to_json(s.device_response) ELSE None
  BY DEF session_to_json, PortsJson, Value, Has, NoKeys, @@, :>

\* session_to_json describes the session, to those who are shown its device or not.
LEMMA JsonDescribes ==
  ASSUME NEW s, NEW incl \in BOOLEAN,
         s.application_server = [ipv4_address |-> s.application_server.ipv4_address,
                                 ipv6_address |-> s.application_server.ipv6_address],
         PortsWritten(s.device_ports), PortsWritten(s.application_server_ports),
         s.device_response # None => s.device # None /\ Shows(s.device_response, s.device)
  PROVE  Describes(session_to_json(s, incl), s)
<1>1. PICK b : b = session_to_json(s, incl)
  OBVIOUS
<1>2. /\ b["qosProfile"] = s.qos_profile /\ b["duration"] = s.duration
      /\ b["applicationServer"] = (Optional("ipv4Address", s.application_server.ipv4_address)
                                     @@ Optional("ipv6Address", s.application_server.ipv6_address))
      /\ Value(b, "devicePorts", None) = IF s.device_ports = None THEN None ELSE Json(PortLists(s.device_ports))
      /\ Value(b, "applicationServerPorts", None) =
           IF s.application_server_ports = None THEN None ELSE Json(PortLists(s.application_server_ports))
      /\ Value(b, "device", None) = IF incl /\ s.device_response # None THEN device_to_json(s.device_response) ELSE None
  BY <1>1, SessionKeys
<1>3. parse_application_server(b["applicationServer"]) = s.application_server
  <2>1. PICK a : a = b["applicationServer"]
    OBVIOUS
  <2>2. /\ Value(a, "ipv4Address", None) = s.application_server.ipv4_address
        /\ Value(a, "ipv6Address", None) = s.application_server.ipv6_address
    BY <1>2, <2>1 DEF Value, Has, Optional, NoKeys, @@, :>
  <2> QED
    BY <2>1, <2>2, Zenon DEF parse_application_server
<1>4. \A p \in Ports : Meant(parse_ports(Value(b, "devicePorts", None)), p) <=> Meant(s.device_ports, p)
  BY <1>2, PortsDescribed
<1>5. \A p \in Ports : Meant(parse_ports(Value(b, "applicationServerPorts", None)), p)
                         <=> Meant(s.application_server_ports, p)
  BY <1>2, PortsDescribed
<1>6. PICK d : d = parse_device(Value(b, "device", None))
  OBVIOUS
<1>7. d # None => s.device # None /\ \A f \in DOMAIN d : d[f] \in {None, s.device[f]}
  <2> SUFFICES ASSUME d # None
               PROVE  s.device # None /\ \A f \in DOMAIN d : d[f] \in {None, s.device[f]}
    OBVIOUS
  <2>1. s.device_response # None /\ d = parse_device(device_to_json(s.device_response))
    BY <1>2, <1>6 DEF parse_device
  <2> QED
    BY <2>1, DeviceDescribed
<1> QED
  BY <1>1, <1>2, <1>3, <1>4, <1>5, <1>6, <1>7 DEF Describes


\* Which messages the handlers work on, and that the store holds well-made sessions
\* until the reply.
StoreInv ==
  /\ stage \in {"QodHandler"} \cup CreationStages => incoming.message_type = "qod_create_session"
  /\ stage \in {"handle_get_session", "handle_delete_session", "handle_extend_session", "extend_failed",
                "handle_retrieve_sessions"} => incoming.message_type # "qod_create_session"
  /\ stage \notin {"reply", "done"} => \A id \in DOMAIN stored : stored[id] # None => WellMade(stored[id])

DescribeInv == StoreInv /\ AnswerDescribesSession

\* The sessions stored when a request comes are well made.
LEMMA DescribeInit == RestInit => DescribeInv
  BY StoredAssumption DEF RestInit, DescribeInv, StoreInv, AnswerDescribesSession, CreationStages

\* Changing the status or the duration leaves the rest of a session as it was.
LEMMA StillWellMade ==
  ASSUME NEW st, NEW id \in DOMAIN st, WellMade(st[id]), NEW v
  PROVE  /\ WellMade([st EXCEPT ![id].status = v][id])
         /\ WellMade([st EXCEPT ![id].duration = v][id])
<1>1. PICK s : s = st[id]
  OBVIOUS
<1>2. [st EXCEPT ![id].status = v][id] = [s EXCEPT !.status = v]
  BY <1>1
<1>3. [st EXCEPT ![id].duration = v][id] = [s EXCEPT !.duration = v]
  BY <1>1
<1>4. WellMade(s)
  BY <1>1
<1>5. ASSUME NEW t, DOMAIN t = DOMAIN s, t.application_server = s.application_server, t.device = s.device,
             t.device_response = s.device_response, t.device_ports = s.device_ports,
             t.application_server_ports = s.application_server_ports
      PROVE  WellMade(t)
  BY <1>4, <1>5 DEF WellMade
<1>6. DOMAIN s = {"consumer", "status", "qos_profile", "duration", "device", "device_response",
                  "application_server", "device_ports", "application_server_ports"}
  BY <1>4 DEF WellMade
<1>7. WellMade([s EXCEPT !.status = v])
  BY <1>5, <1>6
<1>8. WellMade([s EXCEPT !.duration = v])
  BY <1>5, <1>6
<1> QED
  BY <1>2, <1>3, <1>7, <1>8

\* What is in the store is described.
LEMMA WellMadeDescribed ==
  ASSUME NEW s, WellMade(s), NEW incl \in BOOLEAN
  PROVE  Describes(session_to_json(s, incl), s)
  BY JsonDescribes DEF WellMade

\* What create_session lets the responses show is an identifier of the device.
LEMMA ResponseShows ==
  ASSUME NEW j, NEW consumer, DeviceResponse(parse_device(j), consumer) # None
  PROVE  parse_device(j) # None /\ Shows(DeviceResponse(parse_device(j), consumer), parse_device(j))
<1>1. PICK d, r : d = parse_device(j) /\ r = DeviceResponse(d, consumer)
  OBVIOUS
<1>2. d # None
  BY <1>1 DEF DeviceResponse
<1>3. d.ipv4_address # None => d.ipv4_address = [public_address |-> d.ipv4_address.public_address,
                                                 private_address |-> d.ipv4_address.private_address,
                                                 public_port |-> d.ipv4_address.public_port]
  <2>1. PICK u, v, w : d.ipv4_address # None => d.ipv4_address = [public_address |-> u, private_address |-> v, public_port |-> w]
    BY <1>1, <1>2, Zenon DEF parse_device
  <2> QED
    BY <2>1
<1>4. /\ \A f \in {"phone_number", "network_access_identifier", "ipv4_address", "ipv6_address"} : r[f] \in {None, d[f]}
      /\ r.ipv4_address \in {None, d.ipv4_address}
  BY <1>1 DEF DeviceResponse
<1> QED
  BY <1>1, <1>2, <1>3, <1>4 DEF Shows

\* The session of a creation, with what is shown of its device, is described too.
LEMMA CreatedDescribed ==
  ASSUME RequestKnown, Readable(request), NEW supi, session = Made(request.body, supi), NEW incl \in BOOLEAN
  PROVE  LET full == session @@ [device_response |-> DeviceResponse(session.device, call.consumer)]
         IN  Describes(session_to_json(full, incl), session)
<1>1. PICK b : b = request.body
  OBVIOUS
<1>2. /\ session.device = parse_device(Value(b, "device", None))
      /\ session.application_server = parse_application_server(b["applicationServer"])
      /\ session.device_ports = parse_ports(Value(b, "devicePorts", None))
      /\ session.application_server_ports = parse_ports(Value(b, "applicationServerPorts", None))
  BY <1>1, MadeFields
<1>3. PICK r : r = DeviceResponse(session.device, call.consumer)
  OBVIOUS
<1>4. PICK full : full = session @@ [device_response |-> r]
  OBVIOUS
<1>5. /\ full.device_response = r /\ full.device = session.device
      /\ full.application_server = session.application_server /\ full.device_ports = session.device_ports
      /\ full.application_server_ports = session.application_server_ports
      /\ full.qos_profile = session.qos_profile /\ full.duration = session.duration
  <2>1. DOMAIN session = {"device", "application_server", "device_ports", "application_server_ports", "qos_profile",
                          "duration", "ue_supi", "qos_profile_mapping"}
    BY DEF Made, CreateSessionRequest, @@
  <2> QED
    BY <1>4, <2>1 DEF @@
<1>6. full.application_server = [ipv4_address |-> full.application_server.ipv4_address,
                                 ipv6_address |-> full.application_server.ipv6_address]
  BY <1>2, <1>5 DEF parse_application_server
<1>7. PortsWritten(full.device_ports) /\ PortsWritten(full.application_server_ports)
  <2>1. request \in {c.request : c \in Calls}
    BY DEF RequestKnown
  <2>2. \A key \in {"devicePorts", "applicationServerPorts"} : PortsWritten(parse_ports(Value(b, key, None)))
    BY <1>1, <2>1, NullAssumption
  <2> QED
    BY <1>2, <1>5, <2>2
<1>8. full.device_response # None => full.device # None /\ Shows(full.device_response, full.device)
  BY <1>2, <1>3, <1>5, ResponseShows
<1>9. Describes(session_to_json(full, incl), full)
  BY <1>6, <1>7, <1>8, JsonDescribes
<1>10. Describes(session_to_json(full, incl), session)
  BY <1>5, <1>9 DEF Describes
<1> QED
  BY <1>3, <1>4, <1>10

\* The answer describes the session of the request.
LEMMA DescribeNext ==
  ASSUME CreationInv, DescribeInv, [RestNext]_allVars
  PROVE  DescribeInv'
<1>1. CASE UNCHANGED allVars
  BY <1>1 DEF allVars, restVars, DescribeInv, StoreInv, AnswerDescribesSession, extract_session_id
<1>2. CASE create_handler \/ process_message
  BY <1>2 DEF create_handler, process_message, DescribeInv, StoreInv, AnswerDescribesSession, CreationStages
<1>3. CASE route_message
  <2>1. incoming' = incoming /\ stored' = stored /\ stage = "route"
    BY <1>3 DEF route_message
  <2>2. StoreInv'
    BY <1>3, <2>1, HandlerOf
    DEF route_message, create_default_handler, Reply, Has, DescribeInv, StoreInv, CreationStages
  <2>3. stage' = "reply" => reply'.body = None
    BY <1>3, HandlerOf DEF route_message, create_default_handler, Reply, Has
  <2> QED
    BY <2>2, <2>3 DEF DescribeInv, AnswerDescribesSession
<1>4. CASE message_to_http_response
  BY <1>4 DEF message_to_http_response, DescribeInv, StoreInv, AnswerDescribesSession, CreationStages
<1>5. ASSUME stage' = "reply", AnswerDescribesSession'
      PROVE  DescribeInv'
  BY <1>5 DEF DescribeInv, StoreInv, CreationStages
<1>6. ASSUME stage' = "reply", reply'.body = None
      PROVE  DescribeInv'
  BY <1>5, <1>6 DEF AnswerDescribesSession
<1>7. ASSUME NEW status, create_error_response(status)
      PROVE  DescribeInv'
  BY <1>6, <1>7 DEF create_error_response, Reply
<1>8. CASE handle_get_session
  <2>1. PICK id, s : id = extract_session_id(incoming) /\ s = get_session(id, call.consumer)
    OBVIOUS
  <2>2. ASSUME s # None, create_success_response(session_to_json(s, s.device # None), 200)
        PROVE  DescribeInv'
    <3>1. id \in DOMAIN stored /\ s = stored[id]
      BY <2>1, <2>2 DEF get_session, Value, Has
    <3>2. WellMade(s)
      BY <1>8, <2>2, <3>1 DEF handle_get_session, DescribeInv, StoreInv
    <3>3. Describes(session_to_json(s, s.device # None), s)
      BY <3>2, WellMadeDescribed
    <3>4. /\ stage' = "reply" /\ reply'.body = session_to_json(s, s.device # None)
          /\ stored' = stored /\ incoming' = incoming /\ incoming.message_type # "qod_create_session"
      BY <1>8, <2>2 DEF create_success_response, Reply, handle_get_session, DescribeInv, StoreInv
    <3>5. extract_session_id(incoming') = id
      BY <2>1, <3>4
    <3>6. AnswerDescribesSession'
      BY <3>1, <3>3, <3>4, <3>5 DEF AnswerDescribesSession
    <3> QED
      BY <1>5, <3>4, <3>6
  <2> QED
    BY <1>7, <1>8, <2>1, <2>2 DEF handle_get_session
<1>9. CASE handle_delete_session
  <2>1. \/ create_error_response(400)
        \/ Reply("qod_delete_session_response", "http_status" :> 204, None)
    BY <1>9 DEF handle_delete_session
  <2> QED
    BY <1>6, <1>7, <2>1 DEF Reply
<1>10. CASE handle_extend_session
  <2>1. PICK id, s : id = extract_session_id(incoming) /\ s = get_session(id, call.consumer)
    OBVIOUS
  <2>2. /\ stage = "handle_extend_session" /\ incoming' = incoming
        /\ incoming.message_type # "qod_create_session"
    BY <1>10 DEF handle_extend_session, DescribeInv, StoreInv
  <2>3. ASSUME NEW d, s # None, stored' = [stored EXCEPT ![id].duration = d],
               create_success_response(session_to_json(stored'[id], s.device # None), 200)
        PROVE  DescribeInv'
    <3>1. id \in DOMAIN stored /\ s = stored[id]
      BY <2>1, <2>3 DEF get_session, Value, Has
    <3>2. WellMade(stored[id])
      BY <2>2, <2>3, <3>1 DEF DescribeInv, StoreInv
    <3>3. WellMade(stored'[id])
      BY <2>3, <3>1, <3>2, StillWellMade
    <3>4. Describes(session_to_json(stored'[id], s.device # None), stored'[id])
      BY <3>3, WellMadeDescribed
    <3>5. stage' = "reply" /\ reply'.body = session_to_json(stored'[id], s.device # None)
      BY <2>3 DEF create_success_response, Reply
    <3>6. extract_session_id(incoming') = id
      BY <2>1, <2>2
    <3>7. AnswerDescribesSession'
      BY <2>2, <3>4, <3>5, <3>6 DEF AnswerDescribesSession
    <3> QED
      BY <1>5, <3>5, <3>7
  <2>4. ASSUME stage' = "extend_failed", stored' = stored
        PROVE  DescribeInv'
    BY <2>2, <2>4 DEF DescribeInv, StoreInv, AnswerDescribesSession, CreationStages
  <2>5. \/ create_error_response(400)
        \/ stage' = "extend_failed" /\ stored' = stored
        \/ \E d : /\ s # None /\ stored' = [stored EXCEPT ![id].duration = d]
                  /\ create_success_response(session_to_json(stored'[id], s.device # None), 200)
    BY <1>10, <2>1 DEF handle_extend_session
  <2> QED
    BY <1>7, <2>3, <2>4, <2>5
<1>11. CASE ClassifyFailure
  BY <1>7, <1>11 DEF ClassifyFailure
<1>12. CASE handle_retrieve_sessions
  <2>1. (\E status : create_error_response(status)) \/ create_success_response(None, 200)
    BY <1>12 DEF handle_retrieve_sessions
  <2> QED
    BY <1>6, <1>7, <2>1 DEF create_success_response, Reply
<1>13. CASE CreateReply
  <2>1. /\ stage \in {"answered", "sent"} /\ incoming' = incoming /\ session' = session
        /\ incoming.message_type = "qod_create_session"
    BY <1>13 DEF CreateReply, requestVars, DescribeInv, StoreInv, CreationStages
  <2>2. PICK full : full = session @@ [device_response |-> DeviceResponse(session.device, call.consumer)]
    OBVIOUS
  <2>3. ASSUME stage = "sent" \/ Refused, NEW incl \in BOOLEAN, create_success_response(session_to_json(full, incl), 201)
        PROVE  DescribeInv'
    <3>1. PICK supi : session = Made(request.body, supi)
      BY <2>3 DEF CreationInv, SessionInv
    <3>2. RequestKnown /\ Readable(request)
      BY <2>3 DEF CreationInv, SessionInv
    <3>3. Describes(session_to_json(full, incl), session)
      BY <2>2, <3>1, <3>2, CreatedDescribed
    <3>4. stage' = "reply" /\ reply'.body = session_to_json(full, incl)
      BY <2>3 DEF create_success_response, Reply
    <3>5. AnswerDescribesSession'
      BY <2>1, <3>3, <3>4 DEF AnswerDescribesSession
    <3> QED
      BY <1>5, <3>4, <3>5
  <2>4. \/ create_error_response(answer.status)
        \/ /\ stage = "sent" \/ Refused
           /\ create_success_response(session_to_json(full, session.device # None /\ ~request.three_legged), 201)
    BY <1>13, <2>1, <2>2 DEF CreateReply, Refused
  <2>5. (session.device # None /\ ~request.three_legged) \in BOOLEAN
    OBVIOUS
  <2> QED
    BY <1>7, <2>3, <2>4, <2>5
<1>14. CASE CreateStep
  <2>1. /\ incoming' = incoming /\ stored' = stored
        /\ stage \in {"QodHandler"} \cup CreationStages /\ stage' \in CreationStages
    BY <1>14 DEF CreateStep, restVars, handle_create_session, create_session, apply_session_to_pcf,
           handle_qod_create_pcf_session, Finish, CreationStages
  <2> QED
    BY <2>1 DEF DescribeInv, StoreInv, AnswerDescribesSession, CreationStages
<1>15. CASE OthersAct
  <2>1. stage = "extend_failed" /\ stage' = stage /\ incoming' = incoming
    BY <1>15 DEF OthersAct
  <2>2. PICK id \in DOMAIN stored :
          /\ stored[id] # None
          /\ (\E status : stored' = [stored EXCEPT ![id].status = status]) \/ stored' = [stored EXCEPT ![id] = None]
    BY <1>15 DEF OthersAct
  <2>3. \A k \in DOMAIN stored : stored[k] # None => WellMade(stored[k])
    BY <2>1 DEF DescribeInv, StoreInv
  <2>4. DOMAIN stored' = DOMAIN stored /\ \A k \in DOMAIN stored : k # id => stored'[k] = stored[k]
    BY <2>2
  <2>5. stored'[id] = None \/ WellMade(stored'[id])
    BY <2>2, <2>3, StillWellMade
  <2>6. \A k \in DOMAIN stored' : stored'[k] # None => WellMade(stored'[k])
    BY <2>3, <2>4, <2>5
  <2> QED
    BY <2>1, <2>6 DEF DescribeInv, StoreInv, AnswerDescribesSession, CreationStages
<1> QED
  BY <1>1, <1>2, <1>3, <1>4, <1>8, <1>9, <1>10, <1>11, <1>12, <1>13, <1>14, <1>15 DEF RestNext

\* The session an answer describes is the one the request is about.
THEOREM AnswersDescribe == RestSpec => []AnswerDescribesSession
<1>1. RestInit => CreationInv /\ DescribeInv
  BY CreationInit, DescribeInit
<1>2. CreationInv /\ DescribeInv /\ [RestNext]_allVars => CreationInv' /\ DescribeInv'
  BY CreationNext, DescribeNext
<1>3. DescribeInv => AnswerDescribesSession
  BY DEF DescribeInv
<1> QED
  BY <1>1, <1>2, <1>3, PTL DEF RestSpec
=============================================================================
