------------------------- MODULE QodSession_proofs -------------------------
(***************************************************************************)
(* Proofs about QodSession, for every number of threads, sessions, app     *)
(* sessions and every clock bound.                                         *)
(***************************************************************************)
EXTENDS QodSession, TLAPS

-----------------------------------------------------------------------------
(* Inductive invariants *)

Busy(t)     == pc[t] # "idle"
Creating(t) == pc[t] \in {"add", "ue_state", "apply", "respond", "map", "notify",
                          "write_response", "failed", "notify_failed"}

\* A session is stored under its own id, ids are handed out once, and an id that is
\* yet to be stored is known to its creator only.
IdInv ==
  /\ \A s \in SessionIds : Stored(s) => sessions[s].id = s /\ s \in used
  /\ \A t \in Threads : Busy(t) => copy[t].id \in used
  /\ \A t \in Threads : pc[t] = "add" => ~Stored(copy[t].id)
  /\ \A t, u \in Threads : (t # u /\ pc[t] = "add" /\ Busy(u)) => copy[u].id # copy[t].id
  /\ \A t, u \in Threads : (t # u /\ Creating(t) /\ Creating(u)) => copy[u].id # copy[t].id

\* Requests do not overlap.
OneAtATime == \A t, u \in Threads : t = u

\* No copy disagrees with the store on the SUPI, the key of the second index.
SupiInv ==
  /\ SupiIndexExact
  /\ \A t \in Threads : (Busy(t) /\ pc[t] # "add" /\ Stored(copy[t].id))
                           => sessions[copy[t].id].supi = copy[t].supi

\* What holds of every version of a session, stored or in a thread's copy.
Sound(rec) ==
  /\ MinDuration <= rec.duration /\ rec.duration <= MaxDuration
  /\ rec.status = "REQUESTED" => rec.pcf = Null
  /\ rec.status = "AVAILABLE" =>
       /\ rec.pcf \in PcfIds /\ app_sessions[rec.pcf] # "unused"
       /\ rec.started \in Int
       /\ rec.expires = rec.started + rec.duration
  /\ (rec.status = "UNAVAILABLE" /\ rec.pcf # Null) => app_sessions[rec.pcf] = "released"

\* The consumer of s has been told that s is AVAILABLE.
Told(s) == \E f \in events : f.session = s /\ f.status = "AVAILABLE"

\* Every version is sound; while a session is being created no other version of it
\* has an app session; deleting threads have released the app session they read.
SoundInv ==
  /\ \A s \in SessionIds : Stored(s) => Sound(sessions[s])
  /\ \A t \in Threads : Busy(t) => Sound(copy[t])
  /\ \A t \in Threads : reply[t] # Null => app_sessions[reply[t]] # "unused"
  /\ \A t \in Threads : (Creating(t) /\ Stored(copy[t].id)) => sessions[copy[t].id].pcf = Null
  /\ \A t \in Threads : (Creating(t) /\ copy[t].status # "AVAILABLE") => copy[t].pcf = Null
  /\ \A t, u \in Threads : (t # u /\ Creating(t) /\ Busy(u) /\ copy[u].id = copy[t].id)
                              => copy[u].pcf = Null
  /\ \A t \in Threads : pc[t] \in {"add", "remove", "unmap", "map"}
                           => copy[t].status = (IF pc[t] = "add" THEN "REQUESTED" ELSE "AVAILABLE")
  /\ \A t \in Threads : (pc[t] \in {"unmap", "mark"} /\ copy[t].status = "AVAILABLE")
                           => app_sessions[copy[t].pcf] = "released"

\* Whoever can see a session as AVAILABLE sees it after its consumer was told.
ToldInv ==
  /\ DeletedToldAfterAvailable
  /\ \A s \in SessionIds : (Stored(s) /\ sessions[s].status = "AVAILABLE" /\ sessions[s].sink) => Told(s)
  /\ \A t \in Threads : (/\ Busy(t) /\ pc[t] \notin {"map", "notify"}
                         /\ copy[t].status = "AVAILABLE" /\ copy[t].sink) => Told(copy[t].id)
  /\ \A t \in Threads : pc[t] = "notify_deleted" => Told(copy[t].id)

\* Whom and what a session is for, which no operation changes.
SameParties(q, r) == q.consumer = r.consumer /\ q.device = r.device /\ q.server = r.server

\* The calls of create_session after the session is stored, until it is settled.
Pending(t) == pc[t] \in {"ue_state", "apply", "respond", "map", "notify", "write_response", "failed"}

\* A thread holds the app session it is about to write into the store.
Granting(t) == pc[t] \in {"map", "notify", "write_response"} /\ copy[t].status = "AVAILABLE"

\* With one request at a time: what is REQUESTED is being created and not collected.
RequestedInv ==
  /\ \A s \in SessionIds : (Stored(s) /\ sessions[s].status = "REQUESTED")
       => sessions[s].expires = Null /\ \E t \in Threads : Pending(t) /\ copy[t].id = s
  /\ \A s \in expired : /\ s \in used
                        /\ Stored(s) => sessions[s].status # "REQUESTED"
                        /\ \A t \in Threads : pc[t] = "add" => copy[t].id # s
  /\ \A t \in Threads : /\ pc[t] = "add" => copy[t].expires = Null
                        /\ pc[t] \in {"notify", "write_response"} => copy[t].status # "REQUESTED"

\* With one request at a time: how the thread's copy relates to the entry it overwrites.
CopyInv ==
  \A t \in Threads : (Busy(t) /\ pc[t] # "add" /\ Stored(copy[t].id)) =>
    LET rec == sessions[copy[t].id]
    IN  /\ SameParties(rec, copy[t])
        /\ (Pending(t) /\ pc[t] # "failed") => rec.status = "REQUESTED"
        /\ pc[t] = "failed" => rec.status # "AVAILABLE"
        /\ pc[t] \in {"remove", "unmap", "mark"} => rec.status = copy[t].status /\ rec.pcf = copy[t].pcf
        /\ pc[t] \in {"notify_deleted", "write"} =>
             /\ rec.status = copy[t].status \/ copy[t].status = "UNAVAILABLE"
             /\ rec.pcf = copy[t].pcf

\* With one request at a time: no two sessions share an app session, and the one the
\* PCF has just granted is live and nobody else's.
AppInv ==
  /\ \A r, s \in SessionIds : (r # s /\ Stored(r) /\ Stored(s) /\ sessions[r].pcf = sessions[s].pcf)
       => sessions[r].pcf = Null
  /\ \A t \in Threads : reply[t] # Null =>
       /\ pc[t] = "respond" /\ app_sessions[reply[t]] = "live"
       /\ \A s \in SessionIds : Stored(s) => sessions[s].pcf # reply[t]
  /\ \A t \in Threads : Granting(t) =>
       /\ app_sessions[copy[t].pcf] = "live"
       /\ \A s \in SessionIds : Stored(s) => sessions[s].pcf # copy[t].pcf

\* q and r are active sessions of consumers without an id, for one device and server.
Rivals(q, r) ==
  /\ q.consumer = Anonymous /\ r.consumer = Anonymous
  /\ q.status # "UNAVAILABLE" /\ r.status # "UNAVAILABLE"
  /\ q.device # Null /\ q.device = r.device /\ q.server = r.server

\* A session that is about to be stored has no rival in the store either.
RivalInv ==
  /\ AnonymousNeverConflict
  /\ \A t \in Threads, s \in SessionIds : (pc[t] = "add" /\ Stored(s)) => ~Rivals(copy[t], sessions[s])

-----------------------------------------------------------------------------
(* Lemmas about session records *)

\* The fields of a session that the proofs compute with.
LEMMA SessionFields ==
  ASSUME NEW r \in QodSession
  PROVE  /\ r.id \in SessionIds /\ r.duration \in Nat /\ r.status \in Statuses /\ r.info \in Infos
         /\ r.pcf \in PcfIds \cup {Null} /\ r.supi \in Supis \cup {Null}
         /\ r.started \in Int \cup {Null} /\ r.expires \in Int \cup {Null}
         /\ r.sink \in BOOLEAN /\ r.device \in Devices
BY DEF QodSession

\* The session that handle_pcf_session_response makes of a granted one.
LEMMA GrantedFields ==
  ASSUME NEW r \in QodSession, NEW p \in PcfIds, NEW now \in Int
  PROVE  /\ Granted(r, p, now) \in QodSession
         /\ Granted(r, p, now).id = r.id /\ Granted(r, p, now).supi = r.supi
         /\ Granted(r, p, now).sink = r.sink /\ Granted(r, p, now).duration = r.duration
         /\ SameParties(Granted(r, p, now), r)
         /\ Granted(r, p, now).status = "AVAILABLE" /\ Granted(r, p, now).pcf = p
         /\ Granted(r, p, now).started = now /\ Granted(r, p, now).expires = now + r.duration
<1>1. PICK b \in Int : b = now + r.duration
  BY SessionFields
<1>2. Granted(r, p, now) =
        [r EXCEPT !.status = "AVAILABLE", !.pcf = p, !.started = now, !.expires = b]
  BY <1>1 DEF Granted
<1>3. [r EXCEPT !.status = "AVAILABLE", !.pcf = p, !.started = now, !.expires = b] \in QodSession
  BY DEF QodSession, Statuses
<1>4. /\ Granted(r, p, now).id = r.id /\ Granted(r, p, now).supi = r.supi
      /\ Granted(r, p, now).sink = r.sink /\ Granted(r, p, now).duration = r.duration
      /\ Granted(r, p, now).status = "AVAILABLE" /\ Granted(r, p, now).pcf = p
      /\ Granted(r, p, now).started = now /\ Granted(r, p, now).expires = b
      /\ SameParties(Granted(r, p, now), r)
  BY <1>2 DEF QodSession, SameParties
<1> QED
  BY <1>1, <1>2, <1>3, <1>4

\* The session a refusal by the PCF or a failed request makes.
LEMMA RefusedFields ==
  ASSUME NEW r \in QodSession
  PROVE  LET g == Refused(r)
         IN  /\ g \in QodSession
             /\ g.id = r.id /\ g.supi = r.supi /\ g.sink = r.sink /\ g.duration = r.duration
             /\ g.status = "UNAVAILABLE" /\ g.pcf = r.pcf /\ SameParties(g, r)
BY DEF QodSession, Statuses, Infos, Refused, SameParties

\* The session that delete_session writes back.
LEMMA EndedFields ==
  ASSUME NEW r \in QodSession, NEW now \in Int
  PROVE  LET g == Ended(r, now)
         IN  /\ g \in QodSession
             /\ g.id = r.id /\ g.supi = r.supi /\ g.sink = r.sink /\ g.duration = r.duration
             /\ g.status = "UNAVAILABLE" /\ g.pcf = r.pcf /\ SameParties(g, r)
BY DEF QodSession, Statuses, Infos, Ended, SameParties

\* The session that extend_session_duration writes back.
LEMMA ExtendedFields ==
  ASSUME NEW r \in QodSession, NEW total \in Nat, NEW start \in Int
  PROVE  /\ Extended(r, total, start) \in QodSession
         /\ Extended(r, total, start).id = r.id /\ Extended(r, total, start).supi = r.supi
         /\ Extended(r, total, start).sink = r.sink /\ Extended(r, total, start).duration = total
         /\ Extended(r, total, start).status = r.status /\ Extended(r, total, start).pcf = r.pcf
         /\ Extended(r, total, start).started = r.started
         /\ Extended(r, total, start).expires = start + total
         /\ SameParties(Extended(r, total, start), r)
<1>1. PICK b \in Int : b = start + total
  OBVIOUS
<1>2. Extended(r, total, start) = [r EXCEPT !.duration = total, !.expires = b]
  BY <1>1 DEF Extended
<1>3. [r EXCEPT !.duration = total, !.expires = b] \in QodSession
  BY DEF QodSession
<1>4. /\ Extended(r, total, start).id = r.id /\ Extended(r, total, start).supi = r.supi
      /\ Extended(r, total, start).sink = r.sink /\ Extended(r, total, start).duration = total
      /\ Extended(r, total, start).status = r.status /\ Extended(r, total, start).pcf = r.pcf
      /\ Extended(r, total, start).started = r.started
      /\ Extended(r, total, start).expires = b
      /\ SameParties(Extended(r, total, start), r)
  BY <1>2 DEF QodSession, SameParties
<1> QED
  BY <1>1, <1>2, <1>3, <1>4

\* What extend_session_duration puts into the thread's copy.
ExtendOutcome(t) ==
  \E s \in SessionIds, r \in QodSession :
    /\ UNCHANGED <<store, pcf_session_mapping, ue_states, app_sessions, events, clock, used, reply, cleaner>>
    /\ Stored(s) /\ sessions[s] \in QodSession
    /\ copy' = [copy EXCEPT ![t] = r] /\ pc' = [pc EXCEPT ![t] = "write"] /\ pc[t] = "idle"
    /\ r.id = sessions[s].id /\ r.supi = sessions[s].supi /\ r.sink = sessions[s].sink
    /\ r.status = sessions[s].status /\ r.pcf = sessions[s].pcf /\ r.started = sessions[s].started
    /\ SameParties(r, sessions[s]) /\ sessions[s].status # "UNAVAILABLE"
    /\ r.started \in Int => r.expires = r.started + r.duration
    /\ r.duration <= MaxDuration
    /\ sessions[s].duration <= r.duration \/ r.duration = MaxDuration

\* extend_session_duration writes back the stored session with a new duration.
LEMMA ExtendPick ==
  ASSUME TypeOK, NEW t \in Threads, ExtendSession(t)
  PROVE  ExtendOutcome(t)
<1> USE DEF ExtendOutcome
<1>1. PICK s \in SessionIds, more \in Extensions :
        /\ Stored(s) /\ sessions[s].status \in {"AVAILABLE", "REQUESTED"}
        /\ \E start \in StartTimes(sessions[s]) :
             copy' = [copy EXCEPT ![t] = Extended(sessions[s], Capped(sessions[s].duration + more), start)]
  BY DEF ExtendSession, SetCopy
<1>2. PICK start \in StartTimes(sessions[s]) :
        copy' = [copy EXCEPT ![t] = Extended(sessions[s], Capped(sessions[s].duration + more), start)]
  BY <1>1
<1> DEFINE total == Capped(sessions[s].duration + more)
           r == Extended(sessions[s], total, start)
<1>3. sessions[s] \in QodSession
  BY <1>1 DEF TypeOK, Stored
<1>4. /\ start \in Int /\ total \in Nat /\ total <= MaxDuration
      /\ sessions[s].duration <= total \/ total = MaxDuration
      /\ sessions[s].started \in Int => start = sessions[s].started
  BY <1>3, SessionFields, ConstantsAssumption DEF StartTimes, Capped
<1>5. /\ r \in QodSession
      /\ r.id = sessions[s].id /\ r.supi = sessions[s].supi /\ r.sink = sessions[s].sink
      /\ r.status = sessions[s].status /\ r.pcf = sessions[s].pcf /\ r.started = sessions[s].started
      /\ r.duration = total /\ r.expires = start + total /\ SameParties(r, sessions[s])
  BY <1>3, <1>4, ExtendedFields
<1>6. /\ pc[t] = "idle" /\ pc' = [pc EXCEPT ![t] = "write"]
      /\ UNCHANGED <<store, pcf_session_mapping, ue_states, app_sessions, events, clock, used, reply, cleaner>>
  BY DEF ExtendSession, Goto, Idle
<1>7. copy' = [copy EXCEPT ![t] = r]
  BY <1>2
<1>8. /\ r.started \in Int => r.expires = r.started + r.duration
      /\ r.duration <= MaxDuration
      /\ sessions[s].duration <= r.duration \/ r.duration = MaxDuration
      /\ sessions[s].status # "UNAVAILABLE"
  BY <1>1, <1>4, <1>5
<1> HIDE DEF r
<1> QED
  BY <1>1, <1>3, <1>5, <1>6, <1>7, <1>8

\* The four outcomes of handle_pcf_session_response.
ResponseOutcome(t) ==
  /\ UNCHANGED <<store, pcf_session_mapping, ue_states, app_sessions, events, clock, used, cleaner>>
  /\ reply' = [reply EXCEPT ![t] = Null]
  /\ pc[t] = "respond" /\ copy[t] \in QodSession /\ copy[t].id \in SessionIds
  /\ \/ \E r \in QodSession :
          /\ Stored(copy[t].id) /\ sessions[copy[t].id] \in QodSession
          /\ copy' = [copy EXCEPT ![t] = r]
          /\ r.id = sessions[copy[t].id].id /\ r.supi = sessions[copy[t].id].supi
          /\ r.duration = sessions[copy[t].id].duration /\ SameParties(r, sessions[copy[t].id])
          /\ \/ /\ pc' = [pc EXCEPT ![t] = "map"]
                /\ reply[t] \in PcfIds /\ r.pcf = reply[t] /\ r.status = "AVAILABLE"
                /\ r.started \in Int /\ r.expires = r.started + r.duration
             \/ /\ \/ pc' = [pc EXCEPT ![t] = "notify"]
                   \/ pc' = [pc EXCEPT ![t] = "write_response"]
                /\ r.pcf = sessions[copy[t].id].pcf /\ r.status = "UNAVAILABLE"
     \/ /\ ~Stored(copy[t].id)
        /\ \/ copy' = [copy EXCEPT ![t] = Null] /\ pc' = [pc EXCEPT ![t] = "idle"]
           \/ copy' = copy /\ pc' = [pc EXCEPT ![t] = "failed"]

\* handle_pcf_session_response has no other outcome.
LEMMA ResponsePick ==
  ASSUME TypeOK, NEW t \in Threads, handle_pcf_session_response(t)
  PROVE  ResponseOutcome(t)
<1> USE DEF ResponseOutcome
<1> DEFINE s == copy[t].id
<1>1. /\ pc[t] = "respond" /\ copy[t] \in QodSession /\ s \in SessionIds /\ clock \in Int
      /\ UNCHANGED <<store, pcf_session_mapping, ue_states, app_sessions, events, clock, used, cleaner>>
      /\ reply' = [reply EXCEPT ![t] = Null]
  BY SessionFields DEF handle_pcf_session_response, TypeOK
<1>2. CASE Stored(s) /\ reply[t] # Null
  <2> DEFINE r == Granted(sessions[s], reply[t], clock)
  <2>1. sessions[s] \in QodSession /\ reply[t] \in PcfIds
    BY <1>1, <1>2 DEF TypeOK, Stored
  <2>2. /\ r \in QodSession /\ r.id = sessions[s].id /\ r.supi = sessions[s].supi
        /\ r.duration = sessions[s].duration /\ SameParties(r, sessions[s])
        /\ r.pcf = reply[t] /\ r.status = "AVAILABLE"
        /\ r.started = clock /\ r.expires = clock + sessions[s].duration
    BY <1>1, <2>1, GrantedFields
  <2>3. copy' = [copy EXCEPT ![t] = r] /\ pc' = [pc EXCEPT ![t] = "map"]
    BY <1>2 DEF handle_pcf_session_response, SetCopy, Goto
  <2> HIDE DEF r
  <2> QED
    BY <1>1, <1>2, <2>1, <2>2, <2>3
<1>3. CASE Stored(s) /\ reply[t] = Null
  <2> DEFINE r == Refused(sessions[s])
  <2>1. sessions[s] \in QodSession
    BY <1>1, <1>3 DEF TypeOK, Stored
  <2>2. /\ r \in QodSession /\ r.id = sessions[s].id /\ r.supi = sessions[s].supi
        /\ r.duration = sessions[s].duration /\ SameParties(r, sessions[s])
        /\ r.pcf = sessions[s].pcf /\ r.status = "UNAVAILABLE"
    BY <2>1, RefusedFields
  <2>3. /\ copy' = [copy EXCEPT ![t] = r]
        /\ pc' = [pc EXCEPT ![t] = "notify"] \/ pc' = [pc EXCEPT ![t] = "write_response"]
    BY <1>3 DEF handle_pcf_session_response, SetCopy, Goto, AfterResponse
  <2> HIDE DEF r
  <2> QED
    BY <1>1, <1>3, <2>1, <2>2, <2>3
<1>4. CASE ~Stored(s)
  BY <1>1, <1>4 DEF handle_pcf_session_response, Return, Goto
<1> QED
  BY <1>2, <1>3, <1>4

\* FailSession leaves every session alone but the one it marks UNAVAILABLE.
FailOutcome(t) ==
  /\ UNCHANGED <<sessions_by_supi, pcf_session_mapping, ue_states, app_sessions, events, clock,
                 used, copy, reply, cleaner>>
  /\ pc[t] = "failed" /\ pc' = [pc EXCEPT ![t] = "notify_failed"]
  /\ sessions' \in [SessionIds -> QodSession \cup {Null}]
  /\ \A x \in SessionIds :
       \/ sessions'[x] = sessions[x] /\ ~(Stored(x) /\ x = copy[t].id)
       \/ /\ Stored(x) /\ x = copy[t].id
          /\ sessions[x] \in QodSession /\ sessions'[x] \in QodSession
          /\ sessions'[x].id = sessions[x].id /\ sessions'[x].supi = sessions[x].supi
          /\ sessions'[x].duration = sessions[x].duration /\ SameParties(sessions'[x], sessions[x])
          /\ sessions'[x].pcf = sessions[x].pcf /\ sessions'[x].status = "UNAVAILABLE"

\* The fallback of create_session touches only the session it created.
LEMMA FailPick ==
  ASSUME TypeOK, NEW t \in Threads, FailSession(t)
  PROVE  FailOutcome(t)
<1>1. ASSUME NEW x \in SessionIds
      PROVE  \/ sessions'[x] = sessions[x] /\ ~(Stored(x) /\ x = copy[t].id)
             \/ /\ Stored(x) /\ x = copy[t].id
                /\ sessions[x] \in QodSession /\ sessions'[x] \in QodSession
                /\ sessions'[x].id = sessions[x].id /\ sessions'[x].supi = sessions[x].supi
                /\ sessions'[x].duration = sessions[x].duration /\ SameParties(sessions'[x], sessions[x])
                /\ sessions'[x].pcf = sessions[x].pcf /\ sessions'[x].status = "UNAVAILABLE"
  <2>1. CASE Stored(x) /\ x = copy[t].id
    <3>1. sessions[x] \in QodSession
      BY <2>1 DEF TypeOK, Stored
    <3>2. sessions'[x] = Refused(sessions[x])
      BY <2>1 DEF FailSession, update_session_status, Refused
    <3> QED
      BY <2>1, <3>1, <3>2, RefusedFields
  <2>2. CASE ~(Stored(x) /\ x = copy[t].id)
    BY <2>2 DEF FailSession, update_session_status
  <2> QED
    BY <2>1, <2>2
<1>2. sessions' \in [SessionIds -> QodSession \cup {Null}]
  <2>1. sessions' = [x \in SessionIds |-> sessions'[x]]
    BY DEF FailSession, update_session_status
  <2> QED
    BY <1>1, <2>1 DEF TypeOK
<1> QED
  BY <1>1, <1>2 DEF FailSession, update_session_status, Goto, FailOutcome

\* What delete_session makes of the thread's copy.
MarkOutcome(t) ==
  /\ UNCHANGED <<store, pcf_session_mapping, app_sessions, events, clock, used, reply, cleaner>>
  /\ ue_states' = ue_states
  /\ pc[t] = "mark" /\ copy[t] \in QodSession
  /\ \E r \in QodSession :
       /\ copy' = [copy EXCEPT ![t] = r]
       /\ r.id = copy[t].id /\ r.supi = copy[t].supi /\ r.duration = copy[t].duration
       /\ r.pcf = copy[t].pcf /\ r.status = "UNAVAILABLE" /\ SameParties(r, copy[t])
  /\ \/ pc' = [pc EXCEPT ![t] = "write"]
     \/ /\ pc' = [pc EXCEPT ![t] = "notify_deleted"]
        /\ copy[t].sink /\ copy[t].status = "AVAILABLE"

\* delete_session changes status, info and expiry of its copy and nothing else.
LEMMA MarkPick ==
  ASSUME TypeOK, NEW t \in Threads, MarkDeleted(t)
  PROVE  MarkOutcome(t)
<1> USE DEF MarkOutcome
<1>1. /\ pc[t] = "mark" /\ copy[t] \in QodSession /\ clock \in Int
      /\ UNCHANGED <<store, pcf_session_mapping, app_sessions, events, clock, used, reply, cleaner>>
      /\ ue_states' = ue_states
  BY DEF MarkDeleted, TypeOK
<1>2. copy' = [copy EXCEPT ![t] = Ended(copy[t], clock)]
  BY DEF MarkDeleted, SetCopy
<1>3. \/ pc' = [pc EXCEPT ![t] = "write"]
      \/ /\ pc' = [pc EXCEPT ![t] = "notify_deleted"]
         /\ copy[t].sink /\ copy[t].status = "AVAILABLE"
  BY DEF MarkDeleted, Goto
<1> QED
  BY <1>1, <1>2, <1>3, EndedFields

\* The four facts above, for all threads.
LEMMA Outcomes ==
  ASSUME TypeOK
  PROVE  \A t \in Threads :
           /\ ExtendSession(t) => ExtendOutcome(t)
           /\ handle_pcf_session_response(t) => ResponseOutcome(t)
           /\ FailSession(t) => FailOutcome(t)
           /\ MarkDeleted(t) => MarkOutcome(t)
BY ExtendPick, ResponsePick, FailPick, MarkPick

-----------------------------------------------------------------------------
(* Type correctness *)

\* A step keeps the type invariant.
LEMMA TypeStep == TypeOK /\ [Next]_vars => TypeOK'
<1> SUFFICES ASSUME TypeOK, [Next]_vars PROVE TypeOK'
  OBVIOUS
<1>0. \A t \in Threads :
        /\ ExtendSession(t) => ExtendOutcome(t)
        /\ handle_pcf_session_response(t) => ResponseOutcome(t)
        /\ FailSession(t) => FailOutcome(t)
        /\ MarkDeleted(t) => MarkOutcome(t)
  BY Outcomes
<1> USE ConstantsAssumption DEF TypeOK, Locations, Goto, Return, SetCopy, store, locals, cleaner, Idle, Stored
<1>1. ASSUME NEW t \in Threads, CreateSession(t) PROVE TypeOK'
  BY <1>1 DEF CreateSession, generate_session_id, QodSession, Statuses, Infos
<1>2. ASSUME NEW t \in Threads, AddSession(t) PROVE TypeOK'
  BY <1>2, SessionFields DEF AddSession, add_session
<1>3. ASSUME NEW t \in Threads, create_or_update_ue_state(t) PROVE TypeOK'
  BY <1>3, SessionFields DEF create_or_update_ue_state
<1>4. ASSUME NEW t \in Threads, apply_session_to_pcf(t) PROVE TypeOK'
  BY <1>4 DEF apply_session_to_pcf
<1>5. ASSUME NEW t \in Threads, handle_pcf_session_response(t) PROVE TypeOK'
  BY <1>0, <1>5 DEF ResponseOutcome
<1>7. ASSUME NEW t \in Threads, update_pcf_session_map(t) PROVE TypeOK'
  BY <1>7, SessionFields DEF update_pcf_session_map, AfterResponse
<1>8. ASSUME NEW t \in Threads, NotifyResponse(t) PROVE TypeOK'
  BY <1>8 DEF NotifyResponse, send_status_change_notification, QodSession, Events, Infos
<1>9. ASSUME NEW t \in Threads, WriteResponse(t) PROVE TypeOK'
  BY <1>9 DEF WriteResponse, update_session
<1>10. ASSUME NEW t \in Threads, FailSession(t) PROVE TypeOK'
  BY <1>0, <1>10 DEF FailOutcome
<1>11. ASSUME NEW t \in Threads, NotifyFailed(t) PROVE TypeOK'
  BY <1>11 DEF NotifyFailed, send_status_change_notification, QodSession, Events, Infos
<1>12. ASSUME NEW t \in Threads, DeleteSession(t) PROVE TypeOK'
  BY <1>12 DEF DeleteSession
<1>13. ASSUME NEW t \in Threads, remove_session_from_pcf(t) PROVE TypeOK'
  BY <1>13 DEF remove_session_from_pcf
<1>14. ASSUME NEW t \in Threads, remove_pcf_to_qod_session_mapping(t) PROVE TypeOK'
  BY <1>14 DEF remove_pcf_to_qod_session_mapping
<1>15. ASSUME NEW t \in Threads, MarkDeleted(t) PROVE TypeOK'
  BY <1>0, <1>15 DEF MarkOutcome
<1>16. ASSUME NEW t \in Threads, NotifyDeleted(t) PROVE TypeOK'
  BY <1>16 DEF NotifyDeleted, send_status_change_notification, QodSession, Events, Infos
<1>17. ASSUME NEW t \in Threads, WriteBack(t) PROVE TypeOK'
  BY <1>17 DEF WriteBack, update_session
<1>18. ASSUME NEW t \in Threads, ExtendSession(t) PROVE TypeOK'
  BY <1>0, <1>18 DEF ExtendOutcome
<1>19. CASE CollectExpired
  BY <1>19 DEF CollectExpired, get_expired_sessions
<1>20. CASE RemoveExpired
  BY <1>20 DEF RemoveExpired, remove_session
<1>21. CASE Stop
  BY <1>21 DEF Stop
<1>22. CASE StopClear
  BY <1>22 DEF StopClear, clear_all_sessions
<1>23. CASE Tick
  BY <1>23 DEF Tick
<1>24. CASE UNCHANGED vars
  BY <1>24 DEF vars
<1> QED
  BY <1>1, <1>2, <1>3, <1>4, <1>5, <1>7, <1>8, <1>9, <1>10, <1>11, <1>12, <1>13, <1>14,
     <1>15, <1>16, <1>17, <1>18, <1>19, <1>20, <1>21, <1>22, <1>23, <1>24
     DEF Next, Request, Continue

\* Every step keeps the store, the indices, the PCF's app sessions and each
\* thread's local session well formed, and a thread that serves a request holds a
\* session (create_session, delete_session and extend_session_duration never
\* continue with an empty optional).
THEOREM TypeCorrect == Spec => []TypeOK
<1>1. Init => TypeOK
  BY ConstantsAssumption DEF Init, TypeOK, Locations
<1> QED
  BY <1>1, TypeStep, PTL DEF Spec

-----------------------------------------------------------------------------
(* Ids *)

\* Ids stay unique and stored sessions stay under their own id, as long as
\* generate_session_id returns fresh ids.
LEMMA IdStep ==
  ASSUME ~RacyIds \/ OneAtATime
  PROVE  TypeOK /\ IdInv /\ [Next]_vars => IdInv'
<1> SUFFICES ASSUME TypeOK, IdInv, [Next]_vars PROVE IdInv'
  OBVIOUS
<1>0. \A t \in Threads :
        /\ ExtendSession(t) => ExtendOutcome(t)
        /\ handle_pcf_session_response(t) => ResponseOutcome(t)
        /\ FailSession(t) => FailOutcome(t)
        /\ MarkDeleted(t) => MarkOutcome(t)
  BY Outcomes
<1> USE ConstantsAssumption
        DEF TypeOK, IdInv, Busy, Creating, Goto, Return, SetCopy, store, locals, cleaner, Idle,
            Stored
<1>1. ASSUME NEW t \in Threads, CreateSession(t) PROVE IdInv'
  BY <1>1, SessionFields DEF CreateSession, generate_session_id, OneAtATime
<1>2. ASSUME NEW t \in Threads, AddSession(t) PROVE IdInv'
  BY <1>2, SessionFields DEF AddSession, add_session
<1>3. ASSUME NEW t \in Threads, create_or_update_ue_state(t) PROVE IdInv'
  BY <1>3, SessionFields DEF create_or_update_ue_state
<1>4. ASSUME NEW t \in Threads, apply_session_to_pcf(t) PROVE IdInv'
  BY <1>4, SessionFields DEF apply_session_to_pcf
<1>5. ASSUME NEW t \in Threads, handle_pcf_session_response(t) PROVE IdInv'
  BY <1>0, <1>5 DEF ResponseOutcome
<1>7. ASSUME NEW t \in Threads, update_pcf_session_map(t) PROVE IdInv'
  BY <1>7, SessionFields DEF update_pcf_session_map, AfterResponse
<1>8. ASSUME NEW t \in Threads, NotifyResponse(t) PROVE IdInv'
  BY <1>8, SessionFields DEF NotifyResponse, send_status_change_notification
<1>9. ASSUME NEW t \in Threads, WriteResponse(t) PROVE IdInv'
  BY <1>9, SessionFields DEF WriteResponse, update_session
<1>10. ASSUME NEW t \in Threads, FailSession(t) PROVE IdInv'
  BY <1>0, <1>10, SessionFields DEF FailOutcome
<1>11. ASSUME NEW t \in Threads, NotifyFailed(t) PROVE IdInv'
  BY <1>11, SessionFields DEF NotifyFailed, send_status_change_notification
<1>12. ASSUME NEW t \in Threads, DeleteSession(t) PROVE IdInv'
  BY <1>12, SessionFields DEF DeleteSession
<1>13. ASSUME NEW t \in Threads, remove_session_from_pcf(t) PROVE IdInv'
  BY <1>13, SessionFields DEF remove_session_from_pcf
<1>14. ASSUME NEW t \in Threads, remove_pcf_to_qod_session_mapping(t) PROVE IdInv'
  BY <1>14, SessionFields DEF remove_pcf_to_qod_session_mapping
<1>15. ASSUME NEW t \in Threads, MarkDeleted(t) PROVE IdInv'
  BY <1>0, <1>15 DEF MarkOutcome
<1>16. ASSUME NEW t \in Threads, NotifyDeleted(t) PROVE IdInv'
  BY <1>16, SessionFields DEF NotifyDeleted, send_status_change_notification
<1>17. ASSUME NEW t \in Threads, WriteBack(t) PROVE IdInv'
  BY <1>17, SessionFields DEF WriteBack, update_session
<1>18. ASSUME NEW t \in Threads, ExtendSession(t) PROVE IdInv'
  BY <1>0, <1>18 DEF ExtendOutcome
<1>19. CASE CollectExpired
  BY <1>19, SessionFields DEF CollectExpired
<1>20. CASE RemoveExpired
  BY <1>20, SessionFields DEF RemoveExpired, remove_session
<1>21. CASE Stop
  BY <1>21, SessionFields DEF Stop
<1>22. CASE StopClear
  BY <1>22, SessionFields DEF StopClear, clear_all_sessions
<1>23. CASE Tick
  BY <1>23, SessionFields DEF Tick
<1>24. CASE UNCHANGED vars
  BY <1>24, SessionFields DEF vars
<1> QED
  BY <1>1, <1>2, <1>3, <1>4, <1>5, <1>7, <1>8, <1>9, <1>10, <1>11, <1>12, <1>13, <1>14,
     <1>15, <1>16, <1>17, <1>18, <1>19, <1>20, <1>21, <1>22, <1>23, <1>24
     DEF Next, Request, Continue

-----------------------------------------------------------------------------
(* The SUPI index *)

\* The SUPI index stays exact: update_session never changes a SUPI, because every
\* copy was taken from the entry it overwrites.
LEMMA SupiStep ==
  TypeOK /\ IdInv /\ SupiInv /\ [Next]_vars => SupiInv'
<1> SUFFICES ASSUME TypeOK, IdInv, SupiInv, [Next]_vars PROVE SupiInv'
  OBVIOUS
<1>0. \A t \in Threads :
        /\ ExtendSession(t) => ExtendOutcome(t)
        /\ handle_pcf_session_response(t) => ResponseOutcome(t)
        /\ FailSession(t) => FailOutcome(t)
        /\ MarkDeleted(t) => MarkOutcome(t)
  BY Outcomes
<1> USE ConstantsAssumption, NullAssumption
        DEF TypeOK, IdInv, SupiInv, SupiIndexExact, Busy, Goto, Return, SetCopy, store, locals,
            cleaner, Idle, Stored
<1>1. ASSUME NEW t \in Threads, CreateSession(t) PROVE SupiInv'
  BY <1>1, SessionFields DEF CreateSession, generate_session_id
<1>2. ASSUME NEW t \in Threads, AddSession(t) PROVE SupiInv'
  BY <1>2, SessionFields DEF AddSession, add_session
<1>3. ASSUME NEW t \in Threads, create_or_update_ue_state(t) PROVE SupiInv'
  BY <1>3, SessionFields DEF create_or_update_ue_state
<1>4. ASSUME NEW t \in Threads, apply_session_to_pcf(t) PROVE SupiInv'
  BY <1>4, SessionFields DEF apply_session_to_pcf
<1>5. ASSUME NEW t \in Threads, handle_pcf_session_response(t) PROVE SupiInv'
  BY <1>0, <1>5, SessionFields DEF ResponseOutcome
<1>7. ASSUME NEW t \in Threads, update_pcf_session_map(t) PROVE SupiInv'
  BY <1>7, SessionFields DEF update_pcf_session_map, AfterResponse
<1>8. ASSUME NEW t \in Threads, NotifyResponse(t) PROVE SupiInv'
  BY <1>8, SessionFields DEF NotifyResponse, send_status_change_notification
<1>9. ASSUME NEW t \in Threads, WriteResponse(t) PROVE SupiInv'
  BY <1>9, SessionFields DEF WriteResponse, update_session
<1>10. ASSUME NEW t \in Threads, FailSession(t) PROVE SupiInv'
  BY <1>0, <1>10, SessionFields DEF FailOutcome
<1>11. ASSUME NEW t \in Threads, NotifyFailed(t) PROVE SupiInv'
  BY <1>11, SessionFields DEF NotifyFailed, send_status_change_notification
<1>12. ASSUME NEW t \in Threads, DeleteSession(t) PROVE SupiInv'
  BY <1>12, SessionFields DEF DeleteSession
<1>13. ASSUME NEW t \in Threads, remove_session_from_pcf(t) PROVE SupiInv'
  BY <1>13, SessionFields DEF remove_session_from_pcf
<1>14. ASSUME NEW t \in Threads, remove_pcf_to_qod_session_mapping(t) PROVE SupiInv'
  BY <1>14, SessionFields DEF remove_pcf_to_qod_session_mapping
<1>15. ASSUME NEW t \in Threads, MarkDeleted(t) PROVE SupiInv'
  BY <1>0, <1>15, SessionFields DEF MarkOutcome
<1>16. ASSUME NEW t \in Threads, NotifyDeleted(t) PROVE SupiInv'
  BY <1>16, SessionFields DEF NotifyDeleted, send_status_change_notification
<1>17. ASSUME NEW t \in Threads, WriteBack(t) PROVE SupiInv'
  BY <1>17, SessionFields DEF WriteBack, update_session
<1>18. ASSUME NEW t \in Threads, ExtendSession(t) PROVE SupiInv'
  BY <1>0, <1>18, SessionFields DEF ExtendOutcome
<1>19. CASE CollectExpired
  BY <1>19, SessionFields DEF CollectExpired
<1>20. CASE RemoveExpired
  BY <1>20, SessionFields DEF RemoveExpired, remove_session
<1>21. CASE Stop
  BY <1>21, SessionFields DEF Stop
<1>22. CASE StopClear
  BY <1>22, SessionFields DEF StopClear, clear_all_sessions
<1>23. CASE Tick
  BY <1>23, SessionFields DEF Tick
<1>24. CASE UNCHANGED vars
  BY <1>24, SessionFields DEF vars
<1> QED
  BY <1>1, <1>2, <1>3, <1>4, <1>5, <1>7, <1>8, <1>9, <1>10, <1>11, <1>12, <1>13, <1>14,
     <1>15, <1>16, <1>17, <1>18, <1>19, <1>20, <1>21, <1>22, <1>23, <1>24
     DEF Next, Request, Continue

-----------------------------------------------------------------------------
(* Sessions and app sessions *)

\* No step leaves an unsound version of a session, in the store or in a copy.
LEMMA SoundStep ==
  TypeOK /\ IdInv /\ SoundInv /\ [Next]_vars => SoundInv'
<1> SUFFICES ASSUME TypeOK, IdInv, SoundInv, [Next]_vars PROVE SoundInv'
  OBVIOUS
<1>0. \A t \in Threads :
        /\ ExtendSession(t) => ExtendOutcome(t)
        /\ handle_pcf_session_response(t) => ResponseOutcome(t)
        /\ FailSession(t) => FailOutcome(t)
        /\ MarkDeleted(t) => MarkOutcome(t)
  BY Outcomes
<1> USE ConstantsAssumption, NullAssumption
        DEF TypeOK, IdInv, SoundInv, Sound, Busy, Creating, Goto, Return, SetCopy, store, locals,
            cleaner, Idle, Stored
<1>1. ASSUME NEW t \in Threads, CreateSession(t) PROVE SoundInv'
  BY <1>1, SessionFields DEF CreateSession, generate_session_id
<1>2. ASSUME NEW t \in Threads, AddSession(t) PROVE SoundInv'
  BY <1>2, SessionFields DEF AddSession, add_session
<1>3. ASSUME NEW t \in Threads, create_or_update_ue_state(t) PROVE SoundInv'
  BY <1>3, SessionFields DEF create_or_update_ue_state
<1>4. ASSUME NEW t \in Threads, apply_session_to_pcf(t) PROVE SoundInv'
  BY <1>4, SessionFields DEF apply_session_to_pcf
<1>5. ASSUME NEW t \in Threads, handle_pcf_session_response(t) PROVE SoundInv'
  <2>1. copy[t].id \in SessionIds /\ Creating(t) /\ ResponseOutcome(t)
    BY <1>0, <1>5 DEF ResponseOutcome
  <2>2. CASE copy' = [copy EXCEPT ![t] = Null] /\ pc' = [pc EXCEPT ![t] = "idle"]
    BY <2>1, <2>2 DEF ResponseOutcome
  <2>3. CASE copy' = copy /\ pc' = [pc EXCEPT ![t] = "failed"]
    BY <2>1, <2>3, SessionFields DEF ResponseOutcome
  <2>4. ASSUME NEW r \in QodSession, copy' = [copy EXCEPT ![t] = r],
               Stored(copy[t].id), r.id = sessions[copy[t].id].id,
               r.duration = sessions[copy[t].id].duration,
               \/ /\ pc' = [pc EXCEPT ![t] = "map"]
                  /\ reply[t] \in PcfIds /\ r.pcf = reply[t] /\ r.status = "AVAILABLE"
                  /\ r.started \in Int /\ r.expires = r.started + r.duration
               \/ /\ \/ pc' = [pc EXCEPT ![t] = "notify"]
                     \/ pc' = [pc EXCEPT ![t] = "write_response"]
                  /\ r.pcf = sessions[copy[t].id].pcf /\ r.status = "UNAVAILABLE"
        PROVE  SoundInv'
    <3>1. Sound(r) /\ r.id = copy[t].id /\ (r.status # "AVAILABLE" => r.pcf = Null)
      <4>1. sessions[copy[t].id].pcf = Null /\ Sound(sessions[copy[t].id]) /\ r.id = copy[t].id
        BY <2>1, <2>4
      <4> QED
        BY <2>4, <4>1
    <3>2. /\ UNCHANGED <<sessions, app_sessions>> /\ reply' = [reply EXCEPT ![t] = Null]
          /\ pc[t] = "respond"
      BY <2>1 DEF ResponseOutcome
    <3>3. pc'[t] \in {"map", "notify", "write_response"} /\ pc' = [pc EXCEPT ![t] = pc'[t]]
          /\ (pc'[t] = "map" => r.status = "AVAILABLE")
      BY <2>4
    <3> HIDE DEF Sound
    <3>4. \A q : Sound(q)' <=> Sound(q)
      BY <3>2 DEF Sound
    <3> QED
      BY <2>1, <2>4, <3>1, <3>2, <3>3, <3>4
  <2> QED
    BY <2>1, <2>2, <2>3, <2>4 DEF ResponseOutcome
<1>7. ASSUME NEW t \in Threads, update_pcf_session_map(t) PROVE SoundInv'
  BY <1>7, SessionFields DEF update_pcf_session_map, AfterResponse
<1>8. ASSUME NEW t \in Threads, NotifyResponse(t) PROVE SoundInv'
  BY <1>8, SessionFields DEF NotifyResponse, send_status_change_notification
<1>9. ASSUME NEW t \in Threads, WriteResponse(t) PROVE SoundInv'
  <2>1. /\ pc[t] = "write_response" /\ copy[t] \in QodSession /\ copy[t].id \in SessionIds
        /\ Sound(copy[t]) /\ Creating(t) /\ UNCHANGED <<app_sessions, reply>>
        /\ \A u \in Threads \ {t} : pc'[u] = pc[u] /\ copy'[u] = copy[u]
        /\ \A x \in SessionIds : sessions'[x] = IF x = copy[t].id /\ Stored(x) THEN copy[t] ELSE sessions[x]
    BY <1>9, SessionFields DEF WriteResponse, update_session
  <2>2. \/ pc'[t] = "idle"
        \/ pc'[t] = "failed" /\ copy'[t] = copy[t] /\ copy[t].status # "AVAILABLE"
    BY <1>9 DEF WriteResponse
  <2>3. \A q : Sound(q)' <=> Sound(q)
    BY <2>1
  <2>4. pc'[t] = "failed" => copy[t].pcf = Null
    BY <2>1, <2>2, SessionFields
  <2> HIDE DEF Sound
  <2> QED
    BY <2>1, <2>2, <2>3, <2>4, SessionFields
<1>10. ASSUME NEW t \in Threads, FailSession(t) PROVE SoundInv'
  BY <1>0, <1>10, SessionFields DEF FailOutcome
<1>11. ASSUME NEW t \in Threads, NotifyFailed(t) PROVE SoundInv'
  BY <1>11, SessionFields DEF NotifyFailed, send_status_change_notification
<1>12. ASSUME NEW t \in Threads, DeleteSession(t) PROVE SoundInv'
  BY <1>12, SessionFields DEF DeleteSession
<1>13. ASSUME NEW t \in Threads, remove_session_from_pcf(t) PROVE SoundInv'
  BY <1>13, SessionFields DEF remove_session_from_pcf
<1>14. ASSUME NEW t \in Threads, remove_pcf_to_qod_session_mapping(t) PROVE SoundInv'
  BY <1>14, SessionFields DEF remove_pcf_to_qod_session_mapping
<1>15. ASSUME NEW t \in Threads, MarkDeleted(t) PROVE SoundInv'
  <2>1. PICK r \in QodSession :
          /\ copy' = [copy EXCEPT ![t] = r]
          /\ r.id = copy[t].id /\ r.duration = copy[t].duration
          /\ r.pcf = copy[t].pcf /\ r.status = "UNAVAILABLE"
    BY <1>0, <1>15 DEF MarkOutcome
  <2>2. /\ pc[t] = "mark" /\ UNCHANGED <<sessions, app_sessions, reply>>
        /\ pc' = [pc EXCEPT ![t] = pc'[t]] /\ pc'[t] \in {"write", "notify_deleted"}
    BY <1>0, <1>15 DEF MarkOutcome
  <2>3. Sound(copy[t]) /\ copy[t].status \in Statuses
    BY <2>2, SessionFields
  <2>4. Sound(r)
    BY <2>1, <2>2, <2>3 DEF Statuses
  <2>5. \A q : Sound(q)' <=> Sound(q)
    BY <2>2
  <2> HIDE DEF Sound
  <2> QED
    BY <2>1, <2>2, <2>4, <2>5
<1>16. ASSUME NEW t \in Threads, NotifyDeleted(t) PROVE SoundInv'
  BY <1>16, SessionFields DEF NotifyDeleted, send_status_change_notification
<1>17. ASSUME NEW t \in Threads, WriteBack(t) PROVE SoundInv'
  BY <1>17, SessionFields DEF WriteBack, update_session
<1>18. ASSUME NEW t \in Threads, ExtendSession(t) PROVE SoundInv'
  <2>1. PICK s \in SessionIds, r \in QodSession :
          /\ UNCHANGED <<sessions, app_sessions, reply>>
          /\ Stored(s) /\ sessions[s] \in QodSession
          /\ copy' = [copy EXCEPT ![t] = r] /\ pc' = [pc EXCEPT ![t] = "write"] /\ pc[t] = "idle"
          /\ r.id = sessions[s].id /\ r.status = sessions[s].status /\ r.pcf = sessions[s].pcf
          /\ r.started = sessions[s].started /\ sessions[s].status # "UNAVAILABLE"
          /\ r.started \in Int => r.expires = r.started + r.duration
          /\ r.duration <= MaxDuration
          /\ sessions[s].duration <= r.duration \/ r.duration = MaxDuration
    BY <1>0, <1>18 DEF ExtendOutcome
  <2>2. Sound(sessions[s]) /\ r.duration \in Nat /\ sessions[s].duration \in Nat
    BY <2>1, SessionFields
  <2>3. Sound(r)
    BY <2>1, <2>2
  <2>4. \A q : Sound(q)' <=> Sound(q)
    BY <2>1
  <2> HIDE DEF Sound
  <2> QED
    BY <2>1, <2>3, <2>4
<1>19. CASE CollectExpired
  BY <1>19, SessionFields DEF CollectExpired
<1>20. CASE RemoveExpired
  BY <1>20, SessionFields DEF RemoveExpired, remove_session
<1>21. CASE Stop
  BY <1>21, SessionFields DEF Stop
<1>22. CASE StopClear
  BY <1>22, SessionFields DEF StopClear, clear_all_sessions
<1>23. CASE Tick
  BY <1>23, SessionFields DEF Tick
<1>24. CASE UNCHANGED vars
  BY <1>24, SessionFields DEF vars
<1> QED
  BY <1>1, <1>2, <1>3, <1>4, <1>5, <1>7, <1>8, <1>9, <1>10, <1>11, <1>12, <1>13, <1>14,
     <1>15, <1>16, <1>17, <1>18, <1>19, <1>20, <1>21, <1>22, <1>23, <1>24
     DEF Next, Request, Continue

-----------------------------------------------------------------------------
(* Notifications *)

\* The news of a deletion stays behind the news of availability.
LEMMA ToldStep ==
  TypeOK /\ IdInv /\ SoundInv /\ ToldInv /\ [Next]_vars => ToldInv'
<1> SUFFICES ASSUME TypeOK, IdInv, SoundInv, ToldInv, [Next]_vars PROVE ToldInv'
  OBVIOUS
<1>0. \A t \in Threads :
        /\ ExtendSession(t) => ExtendOutcome(t)
        /\ handle_pcf_session_response(t) => ResponseOutcome(t)
        /\ FailSession(t) => FailOutcome(t)
        /\ MarkDeleted(t) => MarkOutcome(t)
  BY Outcomes
<1> USE ConstantsAssumption, NullAssumption
        DEF TypeOK, IdInv, ToldInv, Told, DeletedToldAfterAvailable, Busy, Goto, Return, SetCopy,
            store, locals, cleaner, Idle, Stored
<1>1. ASSUME NEW t \in Threads, CreateSession(t) PROVE ToldInv'
  BY <1>1, SessionFields DEF CreateSession, generate_session_id
<1>2. ASSUME NEW t \in Threads, AddSession(t) PROVE ToldInv'
  BY <1>2, SessionFields DEF AddSession, add_session
<1>3. ASSUME NEW t \in Threads, create_or_update_ue_state(t) PROVE ToldInv'
  BY <1>3, SessionFields DEF create_or_update_ue_state
<1>4. ASSUME NEW t \in Threads, apply_session_to_pcf(t) PROVE ToldInv'
  BY <1>4, SessionFields DEF apply_session_to_pcf
<1>5. ASSUME NEW t \in Threads, handle_pcf_session_response(t) PROVE ToldInv'
  BY <1>0, <1>5, SessionFields DEF ResponseOutcome
<1>7. ASSUME NEW t \in Threads, update_pcf_session_map(t) PROVE ToldInv'
  BY <1>7, SessionFields DEF update_pcf_session_map, AfterResponse
<1>8. ASSUME NEW t \in Threads, NotifyResponse(t) PROVE ToldInv'
  <2> DEFINE told(i) == [session |-> copy[t].id, status |-> copy[t].status, info |-> i]
  <2>1. PICK i : /\ events' = events \cup {told(i)}
                 /\ copy[t].status = "AVAILABLE" \/ i = "NETWORK_TERMINATED"
    <3>1. CASE copy[t].status = "AVAILABLE"
      BY <1>8, <3>1 DEF NotifyResponse, send_status_change_notification
    <3>2. CASE copy[t].status # "AVAILABLE"
      BY <1>8, <3>2 DEF NotifyResponse, send_status_change_notification
    <3> QED
      BY <3>1, <3>2
  <2>2. /\ pc[t] = "notify" /\ pc' = [pc EXCEPT ![t] = "write_response"]
        /\ UNCHANGED <<sessions, copy>>
    BY <1>8 DEF NotifyResponse
  <2>3. told(i).session = copy[t].id /\ told(i).status = copy[t].status /\ told(i).info = i
    OBVIOUS
  <2> HIDE DEF told
  <2> QED
    BY <2>1, <2>2, <2>3
<1>9. ASSUME NEW t \in Threads, WriteResponse(t) PROVE ToldInv'
  BY <1>9, SessionFields DEF WriteResponse, update_session
<1>10. ASSUME NEW t \in Threads, FailSession(t) PROVE ToldInv'
  BY <1>0, <1>10, SessionFields DEF FailOutcome
<1>11. ASSUME NEW t \in Threads, NotifyFailed(t) PROVE ToldInv'
  BY <1>11, SessionFields DEF NotifyFailed, send_status_change_notification
<1>12. ASSUME NEW t \in Threads, DeleteSession(t) PROVE ToldInv'
  BY <1>12, SessionFields DEF DeleteSession
<1>13. ASSUME NEW t \in Threads, remove_session_from_pcf(t) PROVE ToldInv'
  BY <1>13, SessionFields DEF remove_session_from_pcf
<1>14. ASSUME NEW t \in Threads, remove_pcf_to_qod_session_mapping(t) PROVE ToldInv'
  BY <1>14, SessionFields DEF remove_pcf_to_qod_session_mapping
<1>15. ASSUME NEW t \in Threads, MarkDeleted(t) PROVE ToldInv'
  BY <1>0, <1>15, SessionFields DEF MarkOutcome
<1>16. ASSUME NEW t \in Threads, NotifyDeleted(t) PROVE ToldInv'
  BY <1>16, SessionFields DEF NotifyDeleted, send_status_change_notification
<1>17. ASSUME NEW t \in Threads, WriteBack(t) PROVE ToldInv'
  BY <1>17, SessionFields DEF WriteBack, update_session
<1>18. ASSUME NEW t \in Threads, ExtendSession(t) PROVE ToldInv'
  BY <1>0, <1>18, SessionFields DEF ExtendOutcome
<1>19. CASE CollectExpired
  BY <1>19, SessionFields DEF CollectExpired
<1>20. CASE RemoveExpired
  BY <1>20, SessionFields DEF RemoveExpired, remove_session
<1>21. CASE Stop
  BY <1>21, SessionFields DEF Stop
<1>22. CASE StopClear
  BY <1>22, SessionFields DEF StopClear, clear_all_sessions
<1>23. CASE Tick
  BY <1>23, SessionFields DEF Tick
<1>24. CASE UNCHANGED vars
  BY <1>24, SessionFields DEF vars
<1> QED
  BY <1>1, <1>2, <1>3, <1>4, <1>5, <1>7, <1>8, <1>9, <1>10, <1>11, <1>12, <1>13, <1>14,
     <1>15, <1>16, <1>17, <1>18, <1>19, <1>20, <1>21, <1>22, <1>23, <1>24
     DEF Next, Request, Continue

-----------------------------------------------------------------------------
(* What always holds, provided generate_session_id never returns an id twice, as *)
(* it cannot when requests are served one at a time                             *)

\* The four inductive invariants together.
LEMMA AllInvariants ==
  ASSUME ~RacyIds \/ OneAtATime
  PROVE  Spec => [](TypeOK /\ IdInv /\ SupiInv /\ SoundInv /\ ToldInv)
<1>1. Init => TypeOK /\ IdInv /\ SupiInv /\ SoundInv /\ ToldInv
  BY ConstantsAssumption DEF Init, TypeOK, Locations, IdInv, SupiInv, SupiIndexExact, SoundInv, ToldInv,
     DeletedToldAfterAvailable, Busy, Creating, Stored
<1>2. TypeOK /\ IdInv /\ SupiInv /\ SoundInv /\ ToldInv /\ [Next]_vars
        => (TypeOK /\ IdInv /\ SupiInv /\ SoundInv /\ ToldInv)'
  BY TypeStep, IdStep, SupiStep, SoundStep, ToldStep
<1> QED
  BY <1>1, <1>2, PTL DEF Spec

\* sessions_by_supi_ lists exactly the stored sessions of every SUPI, whatever
\* stale copies update_session writes and whenever the cleanup thread removes.
THEOREM SupiIndexCorrect ==
  ASSUME ~RacyIds
  PROVE  Spec => []SupiIndexExact
<1>1. SupiInv => SupiIndexExact
  BY DEF SupiInv
<1> QED
  BY <1>1, AllInvariants, PTL

\* Every AVAILABLE session in the store is backed by an app session the PCF
\* created and carries consistent times within the limits of QodSessionConfig.
THEOREM AvailableCorrect ==
  ASSUME ~RacyIds
  PROVE  Spec => []AvailableIsBacked
<1>1. SoundInv => AvailableIsBacked
  BY DEF SoundInv, Sound, AvailableIsBacked
<1> QED
  BY <1>1, AllInvariants, PTL

\* No session with a known app session is shown as UNAVAILABLE while the PCF
\* still enforces it: delete_session and the failure paths of create_session.
THEOREM UnavailableCorrect ==
  ASSUME ~RacyIds
  PROVE  Spec => []UnavailableIsReleased
<1>1. SoundInv => UnavailableIsReleased
  BY DEF SoundInv, Sound, UnavailableIsReleased
<1> QED
  BY <1>1, AllInvariants, PTL

\* The notification of a deletion follows that of availability.
THEOREM NotificationsOrdered ==
  ASSUME ~RacyIds
  PROVE  Spec => []DeletedToldAfterAvailable
<1>1. ToldInv => DeletedToldAfterAvailable
  BY DEF ToldInv
<1> QED
  BY <1>1, AllInvariants, PTL

\* Only the create_session that owns an id stores it: what the cleanup thread or
\* stop removed is never resurrected by update_session or update_session_status.
THEOREM RemovalIsFinal == Spec => RemovedStaysRemoved
<1> DEFINE A == \A s \in SessionIds : (s \in used /\ Stored(s)' /\ ~Stored(s))
                  => \E t \in Threads : pc[t] = "add" /\ copy[t].id = s
<1>1. TypeOK /\ [Next]_vars => A \/ UNCHANGED vars
  <2> SUFFICES ASSUME TypeOK, Next, NEW s \in SessionIds, Stored(s)', ~Stored(s)
               PROVE  \E t \in Threads : pc[t] = "add" /\ copy[t].id = s
    OBVIOUS
  <2> USE DEF Stored, TypeOK
  <2>1. ASSUME NEW t \in Threads, AddSession(t) PROVE pc[t] = "add" /\ copy[t].id = s
    BY <2>1 DEF AddSession, add_session
  <2>2. ASSUME NEW t \in Threads, WriteResponse(t) \/ WriteBack(t) \/ FailSession(t) PROVE FALSE
    BY <2>2 DEF WriteResponse, WriteBack, FailSession, update_session, update_session_status
  <2>3. CASE RemoveExpired \/ StopClear
    BY <2>3 DEF RemoveExpired, StopClear, remove_session, clear_all_sessions
  <2>4. CASE UNCHANGED sessions
    BY <2>4
  <2>5. ASSUME NEW t \in Threads, Request(t) PROVE UNCHANGED sessions
    BY <2>5 DEF Request, CreateSession, DeleteSession, ExtendSession, store
  <2>6. ASSUME NEW t \in Threads, Continue(t)
        PROVE  \/ UNCHANGED sessions
               \/ AddSession(t) \/ WriteResponse(t) \/ WriteBack(t) \/ FailSession(t)
    BY <2>6 DEF Continue, create_or_update_ue_state, apply_session_to_pcf, handle_pcf_session_response,
       update_pcf_session_map, NotifyResponse, NotifyFailed,
       remove_session_from_pcf, remove_pcf_to_qod_session_mapping, MarkDeleted, NotifyDeleted, store
  <2>7. CollectExpired \/ Stop \/ Tick => UNCHANGED sessions
    BY DEF CollectExpired, Stop, Tick, store
  <2> QED
    BY <2>1, <2>2, <2>3, <2>4, <2>5, <2>6, <2>7 DEF Next
<1> QED
  BY <1>1, TypeCorrect, PTL DEF Spec, RemovedStaysRemoved

-----------------------------------------------------------------------------
(* One request at a time *)

\* What is REQUESTED is being created, and the cleanup thread leaves it alone.
LEMMA RequestedStep ==
  ASSUME OneAtATime
  PROVE  TypeOK /\ IdInv /\ SoundInv /\ CopyInv /\ RequestedInv /\ [Next]_vars => RequestedInv'
<1> SUFFICES ASSUME TypeOK, IdInv, SoundInv, CopyInv, RequestedInv, [Next]_vars PROVE RequestedInv'
  OBVIOUS
<1>0. \A t \in Threads :
        /\ ExtendSession(t) => ExtendOutcome(t)
        /\ handle_pcf_session_response(t) => ResponseOutcome(t)
        /\ FailSession(t) => FailOutcome(t)
        /\ MarkDeleted(t) => MarkOutcome(t)
  BY Outcomes
<1> USE OneAtATime, ConstantsAssumption, NullAssumption
        DEF OneAtATime, TypeOK, IdInv, RequestedInv, CopyInv, Pending, Busy, Stored, Goto, Return,
            SetCopy, store, locals, cleaner, Idle
<1>1. ASSUME NEW t \in Threads, CreateSession(t) PROVE RequestedInv'
  BY <1>1, SessionFields DEF CreateSession, generate_session_id
<1>2. ASSUME NEW t \in Threads, AddSession(t) PROVE RequestedInv'
  <2>1. /\ pc[t] = "add" /\ copy[t] \in QodSession /\ copy[t].id \in SessionIds /\ copy[t].expires = Null
        /\ sessions' = [sessions EXCEPT ![copy[t].id] = copy[t]]
        /\ pc' = [pc EXCEPT ![t] = "ue_state"] /\ UNCHANGED <<copy, used, expired>>
    BY <1>2, SessionFields DEF AddSession, add_session
  <2>2. ASSUME NEW s \in SessionIds, Stored(s)', sessions'[s].status = "REQUESTED"
        PROVE  sessions'[s].expires = Null /\ Pending(t)' /\ copy'[t].id = s
    BY <2>1, <2>2
  <2>3. ASSUME NEW s \in expired PROVE Stored(s)' => sessions'[s].status # "REQUESTED"
    BY <2>1, <2>3
  <2> QED
    BY <2>1, <2>2, <2>3
<1>3. ASSUME NEW t \in Threads, create_or_update_ue_state(t) PROVE RequestedInv'
  BY <1>3, SessionFields DEF create_or_update_ue_state
<1>4. ASSUME NEW t \in Threads, apply_session_to_pcf(t) PROVE RequestedInv'
  BY <1>4, SessionFields DEF apply_session_to_pcf
<1>5. ASSUME NEW t \in Threads, handle_pcf_session_response(t) PROVE RequestedInv'
  BY <1>0, <1>5, SessionFields DEF ResponseOutcome
<1>6. ASSUME NEW t \in Threads, update_pcf_session_map(t) PROVE RequestedInv'
  BY <1>6, SessionFields DEF update_pcf_session_map, AfterResponse, SoundInv
<1>7. ASSUME NEW t \in Threads, NotifyResponse(t) PROVE RequestedInv'
  BY <1>7, SessionFields DEF NotifyResponse, send_status_change_notification
<1>8. ASSUME NEW t \in Threads, WriteResponse(t) PROVE RequestedInv'
  <2>1. /\ pc[t] = "write_response" /\ copy[t] \in QodSession /\ copy[t].id \in SessionIds
        /\ copy[t].status # "REQUESTED" /\ UNCHANGED <<used, expired>>
        /\ \A x \in SessionIds : sessions'[x] = IF x = copy[t].id /\ Stored(x) THEN copy[t] ELSE sessions[x]
    BY <1>8, SessionFields DEF WriteResponse, update_session
  <2>2. pc'[t] \in {"idle", "failed"}
    BY <1>8 DEF WriteResponse
  <2>3. ASSUME NEW s \in SessionIds, Stored(s)' PROVE sessions'[s].status # "REQUESTED"
    BY <2>1, <2>3
  <2> QED
    BY <2>1, <2>2, <2>3
<1>9. ASSUME NEW t \in Threads, FailSession(t) PROVE RequestedInv'
  BY <1>0, <1>9, SessionFields DEF FailOutcome
<1>10. ASSUME NEW t \in Threads, NotifyFailed(t) PROVE RequestedInv'
  BY <1>10, SessionFields DEF NotifyFailed, send_status_change_notification
<1>11. ASSUME NEW t \in Threads, DeleteSession(t) PROVE RequestedInv'
  BY <1>11, SessionFields DEF DeleteSession
<1>12. ASSUME NEW t \in Threads, remove_session_from_pcf(t) PROVE RequestedInv'
  BY <1>12, SessionFields DEF remove_session_from_pcf
<1>13. ASSUME NEW t \in Threads, remove_pcf_to_qod_session_mapping(t) PROVE RequestedInv'
  BY <1>13, SessionFields DEF remove_pcf_to_qod_session_mapping
<1>14. ASSUME NEW t \in Threads, MarkDeleted(t) PROVE RequestedInv'
  BY <1>0, <1>14, SessionFields DEF MarkOutcome
<1>15. ASSUME NEW t \in Threads, NotifyDeleted(t) PROVE RequestedInv'
  BY <1>15, SessionFields DEF NotifyDeleted, send_status_change_notification
<1>16. ASSUME NEW t \in Threads, WriteBack(t) PROVE RequestedInv'
  BY <1>16, SessionFields DEF WriteBack, update_session
<1>17. ASSUME NEW t \in Threads, ExtendSession(t) PROVE RequestedInv'
  BY <1>0, <1>17, SessionFields DEF ExtendOutcome
<1>18. CASE CollectExpired
  BY <1>18, SessionFields DEF CollectExpired, get_expired_sessions
<1>19. CASE RemoveExpired
  BY <1>19, SessionFields DEF RemoveExpired, remove_session
<1>20. CASE Stop
  BY <1>20, SessionFields DEF Stop
<1>21. CASE StopClear
  BY <1>21, SessionFields DEF StopClear, clear_all_sessions
<1>22. CASE Tick
  BY <1>22, SessionFields DEF Tick
<1>23. CASE UNCHANGED vars
  BY <1>23, SessionFields DEF vars
<1> QED
  BY <1>1, <1>2, <1>3, <1>4, <1>5, <1>6, <1>7, <1>8, <1>9, <1>10, <1>11, <1>12,
     <1>13, <1>14, <1>15, <1>16, <1>17, <1>18, <1>19, <1>20, <1>21, <1>22, <1>23
     DEF Next, Request, Continue

\* The thread's copy stays one that may overwrite its entry.
LEMMA CopyStep ==
  ASSUME OneAtATime
  PROVE  TypeOK /\ IdInv /\ SoundInv /\ RequestedInv /\ CopyInv /\ [Next]_vars => CopyInv'
<1> SUFFICES ASSUME TypeOK, IdInv, SoundInv, RequestedInv, CopyInv, [Next]_vars PROVE CopyInv'
  OBVIOUS
<1>0. \A t \in Threads :
        /\ ExtendSession(t) => ExtendOutcome(t)
        /\ handle_pcf_session_response(t) => ResponseOutcome(t)
        /\ FailSession(t) => FailOutcome(t)
        /\ MarkDeleted(t) => MarkOutcome(t)
  BY Outcomes
<1> USE OneAtATime, ConstantsAssumption, NullAssumption
        DEF OneAtATime, TypeOK, IdInv, RequestedInv, CopyInv, Pending, SameParties, Busy, Stored,
            Goto, Return, SetCopy, store, locals, cleaner, Idle
<1>1. ASSUME NEW t \in Threads, CreateSession(t) PROVE CopyInv'
  BY <1>1, SessionFields DEF CreateSession, generate_session_id
<1>2. ASSUME NEW t \in Threads, AddSession(t) PROVE CopyInv'
  BY <1>2, SessionFields DEF AddSession, add_session, SoundInv
<1>3. ASSUME NEW t \in Threads, create_or_update_ue_state(t) PROVE CopyInv'
  BY <1>3, SessionFields DEF create_or_update_ue_state
<1>4. ASSUME NEW t \in Threads, apply_session_to_pcf(t) PROVE CopyInv'
  BY <1>4, SessionFields DEF apply_session_to_pcf
<1>5. ASSUME NEW t \in Threads, handle_pcf_session_response(t) PROVE CopyInv'
  BY <1>0, <1>5, SessionFields DEF ResponseOutcome
<1>6. ASSUME NEW t \in Threads, update_pcf_session_map(t) PROVE CopyInv'
  BY <1>6, SessionFields DEF update_pcf_session_map, AfterResponse
<1>7. ASSUME NEW t \in Threads, NotifyResponse(t) PROVE CopyInv'
  BY <1>7, SessionFields DEF NotifyResponse, send_status_change_notification
<1>8. ASSUME NEW t \in Threads, WriteResponse(t) PROVE CopyInv'
  BY <1>8, SessionFields DEF WriteResponse, update_session
<1>9. ASSUME NEW t \in Threads, FailSession(t) PROVE CopyInv'
  BY <1>0, <1>9, SessionFields DEF FailOutcome
<1>10. ASSUME NEW t \in Threads, NotifyFailed(t) PROVE CopyInv'
  BY <1>10, SessionFields DEF NotifyFailed, send_status_change_notification
<1>11. ASSUME NEW t \in Threads, DeleteSession(t) PROVE CopyInv'
  BY <1>11, SessionFields DEF DeleteSession
<1>12. ASSUME NEW t \in Threads, remove_session_from_pcf(t) PROVE CopyInv'
  BY <1>12, SessionFields DEF remove_session_from_pcf
<1>13. ASSUME NEW t \in Threads, remove_pcf_to_qod_session_mapping(t) PROVE CopyInv'
  BY <1>13, SessionFields DEF remove_pcf_to_qod_session_mapping
<1>14. ASSUME NEW t \in Threads, MarkDeleted(t) PROVE CopyInv'
  BY <1>0, <1>14, SessionFields DEF MarkOutcome
<1>15. ASSUME NEW t \in Threads, NotifyDeleted(t) PROVE CopyInv'
  BY <1>15, SessionFields DEF NotifyDeleted, send_status_change_notification
<1>16. ASSUME NEW t \in Threads, WriteBack(t) PROVE CopyInv'
  BY <1>16, SessionFields DEF WriteBack, update_session
<1>17. ASSUME NEW t \in Threads, ExtendSession(t) PROVE CopyInv'
  BY <1>0, <1>17, SessionFields DEF ExtendOutcome
<1>18. CASE CollectExpired
  BY <1>18, SessionFields DEF CollectExpired, get_expired_sessions
<1>19. CASE RemoveExpired
  BY <1>19, SessionFields DEF RemoveExpired, remove_session
<1>20. CASE Stop
  BY <1>20, SessionFields DEF Stop
<1>21. CASE StopClear
  BY <1>21, SessionFields DEF StopClear, clear_all_sessions
<1>22. CASE Tick
  BY <1>22, SessionFields DEF Tick
<1>23. CASE UNCHANGED vars
  BY <1>23, SessionFields DEF vars
<1> QED
  BY <1>1, <1>2, <1>3, <1>4, <1>5, <1>6, <1>7, <1>8, <1>9, <1>10, <1>11, <1>12,
     <1>13, <1>14, <1>15, <1>16, <1>17, <1>18, <1>19, <1>20, <1>21, <1>22, <1>23
     DEF Next, Request, Continue

\* Sessions keep app sessions of their own.
LEMMA AppStep ==
  ASSUME OneAtATime
  PROVE  TypeOK /\ IdInv /\ SoundInv /\ CopyInv /\ AppInv /\ [Next]_vars => AppInv'
<1> SUFFICES ASSUME TypeOK, IdInv, SoundInv, CopyInv, AppInv, [Next]_vars PROVE AppInv'
  OBVIOUS
<1>0. \A t \in Threads :
        /\ ExtendSession(t) => ExtendOutcome(t)
        /\ handle_pcf_session_response(t) => ResponseOutcome(t)
        /\ FailSession(t) => FailOutcome(t)
        /\ MarkDeleted(t) => MarkOutcome(t)
  BY Outcomes
<1> USE OneAtATime, ConstantsAssumption, NullAssumption
        DEF OneAtATime, TypeOK, IdInv, SoundInv, Sound, CopyInv, AppInv, Granting, Pending,
            Creating, Busy, Stored, Goto, Return, SetCopy, store, locals, cleaner, Idle
<1>1. ASSUME NEW t \in Threads, CreateSession(t) PROVE AppInv'
  BY <1>1, SessionFields DEF CreateSession, generate_session_id
<1>2. ASSUME NEW t \in Threads, AddSession(t) PROVE AppInv'
  BY <1>2, SessionFields DEF AddSession, add_session
<1>3. ASSUME NEW t \in Threads, create_or_update_ue_state(t) PROVE AppInv'
  BY <1>3, SessionFields DEF create_or_update_ue_state
<1>4. ASSUME NEW t \in Threads, apply_session_to_pcf(t) PROVE AppInv'
  <2>1. /\ pc[t] = "apply" /\ reply[t] = Null /\ UNCHANGED <<sessions, copy>>
        /\ pc'[t] \in {"respond", "failed"}
    BY <1>4 DEF apply_session_to_pcf
  <2>2. CASE \E p \in PcfIds : /\ app_sessions[p] = "unused"
                               /\ app_sessions' = [app_sessions EXCEPT ![p] = "live"]
                               /\ \/ pc'[t] = "respond" /\ reply' = [reply EXCEPT ![t] = p]
                                  \/ UNCHANGED reply
    <3>1. PICK p \in PcfIds : /\ app_sessions[p] = "unused"
                              /\ app_sessions' = [app_sessions EXCEPT ![p] = "live"]
                              /\ \/ pc'[t] = "respond" /\ reply' = [reply EXCEPT ![t] = p]
                                 \/ UNCHANGED reply
      BY <2>2
    <3>2. ASSUME NEW s \in SessionIds, Stored(s) PROVE sessions[s].pcf # p
      <4>1. sessions[s] \in QodSession /\ sessions[s].status \in Statuses /\ Sound(sessions[s])
        BY <3>2, SessionFields
      <4> QED
        BY <3>1, <4>1 DEF Statuses
    <3> QED
      BY <2>1, <3>1, <3>2
  <2>3. CASE UNCHANGED <<app_sessions, reply>>
    BY <2>1, <2>3
  <2> QED
    BY <1>4, <2>1, <2>2, <2>3 DEF apply_session_to_pcf
<1>5. ASSUME NEW t \in Threads, handle_pcf_session_response(t) PROVE AppInv'
  BY <1>0, <1>5, SessionFields DEF ResponseOutcome
<1>6. ASSUME NEW t \in Threads, update_pcf_session_map(t) PROVE AppInv'
  BY <1>6, SessionFields DEF update_pcf_session_map, AfterResponse
<1>7. ASSUME NEW t \in Threads, NotifyResponse(t) PROVE AppInv'
  BY <1>7, SessionFields DEF NotifyResponse, send_status_change_notification
<1>8. ASSUME NEW t \in Threads, WriteResponse(t) PROVE AppInv'
  BY <1>8, SessionFields DEF WriteResponse, update_session
<1>9. ASSUME NEW t \in Threads, FailSession(t) PROVE AppInv'
  BY <1>0, <1>9, SessionFields DEF FailOutcome
<1>10. ASSUME NEW t \in Threads, NotifyFailed(t) PROVE AppInv'
  BY <1>10, SessionFields DEF NotifyFailed, send_status_change_notification
<1>11. ASSUME NEW t \in Threads, DeleteSession(t) PROVE AppInv'
  BY <1>11, SessionFields DEF DeleteSession
<1>12. ASSUME NEW t \in Threads, remove_session_from_pcf(t) PROVE AppInv'
  BY <1>12, SessionFields DEF remove_session_from_pcf
<1>13. ASSUME NEW t \in Threads, remove_pcf_to_qod_session_mapping(t) PROVE AppInv'
  BY <1>13, SessionFields DEF remove_pcf_to_qod_session_mapping
<1>14. ASSUME NEW t \in Threads, MarkDeleted(t) PROVE AppInv'
  BY <1>0, <1>14, SessionFields DEF MarkOutcome
<1>15. ASSUME NEW t \in Threads, NotifyDeleted(t) PROVE AppInv'
  BY <1>15, SessionFields DEF NotifyDeleted, send_status_change_notification
<1>16. ASSUME NEW t \in Threads, WriteBack(t) PROVE AppInv'
  BY <1>16, SessionFields DEF WriteBack, update_session
<1>17. ASSUME NEW t \in Threads, ExtendSession(t) PROVE AppInv'
  BY <1>0, <1>17, SessionFields DEF ExtendOutcome
<1>18. CASE CollectExpired
  BY <1>18, SessionFields DEF CollectExpired, get_expired_sessions
<1>19. CASE RemoveExpired
  BY <1>19, SessionFields DEF RemoveExpired, remove_session
<1>20. CASE Stop
  BY <1>20, SessionFields DEF Stop
<1>21. CASE StopClear
  BY <1>21, SessionFields DEF StopClear, clear_all_sessions
<1>22. CASE Tick
  BY <1>22, SessionFields DEF Tick
<1>23. CASE UNCHANGED vars
  BY <1>23, SessionFields DEF vars
<1> QED
  BY <1>1, <1>2, <1>3, <1>4, <1>5, <1>6, <1>7, <1>8, <1>9, <1>10, <1>11, <1>12,
     <1>13, <1>14, <1>15, <1>16, <1>17, <1>18, <1>19, <1>20, <1>21, <1>22, <1>23
     DEF Next, Request, Continue

\* A new session was checked against the stored sessions of its device and server.
CreateOutcome(t) ==
  \E device \in Devices, server \in Servers, r \in QodSession :
    /\ device # Null => check_session_conflict(device, server) = {}
    /\ r.device = device /\ r.server = server
    /\ copy' = [copy EXCEPT ![t] = r] /\ UNCHANGED sessions

\* create_session stores only what passed check_session_conflict.
LEMMA CreatePick ==
  ASSUME TypeOK, NEW t \in Threads, CreateSession(t)
  PROVE  CreateOutcome(t)
<1>1. PICK consumer \in Consumers, device \in Devices, server \in Servers,
           duration \in Durations, sink \in Sinks, supi \in Resolutions, id \in generate_session_id(t) :
        /\ device # Null => check_session_conflict(device, server) = {}
        /\ SetCopy(t, [id |-> id, consumer |-> consumer, device |-> device,
                       server |-> server, supi |-> supi, sink |-> sink,
                       duration |-> duration, pcf |-> Null, status |-> "REQUESTED",
                       info |-> "NONE", started |-> Null, expires |-> Null])
  BY DEF CreateSession
<1> DEFINE r == [id |-> id, consumer |-> consumer, device |-> device,
                 server |-> server, supi |-> supi, sink |-> sink,
                 duration |-> duration, pcf |-> Null, status |-> "REQUESTED",
                 info |-> "NONE", started |-> Null, expires |-> Null]
<1>2. id \in SessionIds
  <2>1. \A u \in Threads : pc[u] = "add" => copy[u].id \in SessionIds
    BY SessionFields DEF TypeOK
  <2> QED
    BY <2>1 DEF generate_session_id
<1>3. r \in QodSession /\ r.device = device /\ r.server = server
  BY <1>2, ConstantsAssumption DEF QodSession, Statuses, Infos
<1>4. copy' = [copy EXCEPT ![t] = r] /\ UNCHANGED sessions
  BY <1>1 DEF SetCopy, CreateSession, store
<1> HIDE DEF r
<1> QED
  BY <1>1, <1>3, <1>4 DEF CreateOutcome

\* check_session_conflict keeps rivals out, and no later step makes a session active again.
LEMMA RivalStep ==
  ASSUME OneAtATime
  PROVE  TypeOK /\ IdInv /\ CopyInv /\ RivalInv /\ [Next]_vars => RivalInv'
<1> SUFFICES ASSUME TypeOK, IdInv, CopyInv, RivalInv, [Next]_vars PROVE RivalInv'
  OBVIOUS
<1>0. \A t \in Threads :
        /\ ExtendSession(t) => ExtendOutcome(t)
        /\ handle_pcf_session_response(t) => ResponseOutcome(t)
        /\ FailSession(t) => FailOutcome(t)
        /\ MarkDeleted(t) => MarkOutcome(t)
  BY Outcomes
<1> USE OneAtATime, ConstantsAssumption, NullAssumption
        DEF OneAtATime, TypeOK, IdInv, CopyInv, Pending, RivalInv, Rivals, AnonymousNeverConflict,
            SameParties, Busy, Stored, Goto, Return, SetCopy, store, locals, cleaner, Idle
<1>1. ASSUME NEW t \in Threads, CreateSession(t) PROVE RivalInv'
  <2>1. PICK device \in Devices, server \in Servers, r \in QodSession :
          /\ device # Null => check_session_conflict(device, server) = {}
          /\ r.device = device /\ r.server = server
          /\ copy' = [copy EXCEPT ![t] = r] /\ UNCHANGED sessions
    BY <1>1, CreatePick DEF CreateOutcome
  <2>2. ASSUME NEW s \in SessionIds, Stored(s), Rivals(r, sessions[s]) PROVE FALSE
    <3>1. s \in check_session_conflict(device, server) /\ device # Null
      BY <2>1, <2>2 DEF check_session_conflict, retrieve_sessions_by_device
    <3> QED
      BY <2>1, <3>1
  <2>3. pc' = [pc EXCEPT ![t] = "add"]
    BY <1>1 DEF CreateSession
  <2> QED
    BY <2>1, <2>2, <2>3
<1>2. ASSUME NEW t \in Threads, AddSession(t) PROVE RivalInv'
  BY <1>2, SessionFields DEF AddSession, add_session
<1>3. ASSUME NEW t \in Threads, create_or_update_ue_state(t) PROVE RivalInv'
  BY <1>3, SessionFields DEF create_or_update_ue_state
<1>4. ASSUME NEW t \in Threads, apply_session_to_pcf(t) PROVE RivalInv'
  BY <1>4, SessionFields DEF apply_session_to_pcf
<1>5. ASSUME NEW t \in Threads, handle_pcf_session_response(t) PROVE RivalInv'
  BY <1>0, <1>5, SessionFields DEF ResponseOutcome
<1>6. ASSUME NEW t \in Threads, update_pcf_session_map(t) PROVE RivalInv'
  BY <1>6, SessionFields DEF update_pcf_session_map, AfterResponse
<1>7. ASSUME NEW t \in Threads, NotifyResponse(t) PROVE RivalInv'
  BY <1>7, SessionFields DEF NotifyResponse, send_status_change_notification
<1>8. ASSUME NEW t \in Threads, WriteResponse(t) PROVE RivalInv'
  BY <1>8, SessionFields DEF WriteResponse, update_session
<1>9. ASSUME NEW t \in Threads, FailSession(t) PROVE RivalInv'
  BY <1>0, <1>9, SessionFields DEF FailOutcome
<1>10. ASSUME NEW t \in Threads, NotifyFailed(t) PROVE RivalInv'
  BY <1>10, SessionFields DEF NotifyFailed, send_status_change_notification
<1>11. ASSUME NEW t \in Threads, DeleteSession(t) PROVE RivalInv'
  BY <1>11, SessionFields DEF DeleteSession
<1>12. ASSUME NEW t \in Threads, remove_session_from_pcf(t) PROVE RivalInv'
  BY <1>12, SessionFields DEF remove_session_from_pcf
<1>13. ASSUME NEW t \in Threads, remove_pcf_to_qod_session_mapping(t) PROVE RivalInv'
  BY <1>13, SessionFields DEF remove_pcf_to_qod_session_mapping
<1>14. ASSUME NEW t \in Threads, MarkDeleted(t) PROVE RivalInv'
  BY <1>0, <1>14, SessionFields DEF MarkOutcome
<1>15. ASSUME NEW t \in Threads, NotifyDeleted(t) PROVE RivalInv'
  BY <1>15, SessionFields DEF NotifyDeleted, send_status_change_notification
<1>16. ASSUME NEW t \in Threads, WriteBack(t) PROVE RivalInv'
  BY <1>16, SessionFields DEF WriteBack, update_session
<1>17. ASSUME NEW t \in Threads, ExtendSession(t) PROVE RivalInv'
  BY <1>0, <1>17, SessionFields DEF ExtendOutcome
<1>18. CASE CollectExpired
  BY <1>18, SessionFields DEF CollectExpired, get_expired_sessions
<1>19. CASE RemoveExpired
  BY <1>19, SessionFields DEF RemoveExpired, remove_session
<1>20. CASE Stop
  BY <1>20, SessionFields DEF Stop
<1>21. CASE StopClear
  BY <1>21, SessionFields DEF StopClear, clear_all_sessions
<1>22. CASE Tick
  BY <1>22, SessionFields DEF Tick
<1>23. CASE UNCHANGED vars
  BY <1>23, SessionFields DEF vars
<1> QED
  BY <1>1, <1>2, <1>3, <1>4, <1>5, <1>6, <1>7, <1>8, <1>9, <1>10, <1>11, <1>12,
     <1>13, <1>14, <1>15, <1>16, <1>17, <1>18, <1>19, <1>20, <1>21, <1>22, <1>23
     DEF Next, Request, Continue

\* The invariants of one request at a time.
SerialInv == RequestedInv /\ CopyInv /\ AppInv /\ RivalInv

\* They hold together with the ones that do not depend on it.
LEMMA SerialInvariants ==
  ASSUME OneAtATime
  PROVE  Spec => [](TypeOK /\ IdInv /\ SoundInv /\ SerialInv)
<1>1. Init => SerialInv
  BY DEF Init, SerialInv, RequestedInv, CopyInv, AppInv, RivalInv, AnonymousNeverConflict, Granting, Pending,
     Busy, Stored
<1>2. TypeOK /\ IdInv /\ SoundInv /\ SerialInv /\ [Next]_vars => SerialInv'
  BY OneAtATime, RequestedStep, CopyStep, AppStep, RivalStep DEF SerialInv
<1> QED
  BY <1>1, <1>2, OneAtATime, AllInvariants, PTL DEF Spec

\* When requests do not overlap, check_session_conflict does what it is for among
\* the consumers it looks at: no two active anonymous sessions share device and server.
THEOREM AnonymousKeptApart ==
  ASSUME OneAtATime
  PROVE  Spec => []AnonymousNeverConflict
<1>1. SerialInv => AnonymousNeverConflict
  BY DEF SerialInv, RivalInv
<1> QED
  BY <1>1, OneAtATime, SerialInvariants, PTL

-----------------------------------------------------------------------------
(* One request at a time, the session manager implements the session lifecycle *)

\* The session is about to be stored for the first time.
Adding(s) == \E t \in Threads : pc[t] = "add" /\ copy[t].id = s

\* One session as SessionLifecycle sees it: its status, and whether it is enforced.
View(s) == IF Stored(s) THEN sessions[s].status
           ELSE IF s \in used /\ ~Adding(s) THEN "gone" ELSE "none"
InForce(s) == Stored(s) /\ sessions[s].pcf # Null /\ app_sessions[sessions[s].pcf] = "live"

\* The lifecycle's variables are these views, session by session.
LEMMA ViewFacts ==
  /\ LifecycleStatus = [s \in SessionIds |-> View(s)] /\ Enforced = {s \in SessionIds : InForce(s)}
  /\ LifecycleStatus' = [s \in SessionIds |-> View(s)'] /\ Enforced' = {s \in SessionIds : InForce(s)'}
BY DEF LifecycleStatus, Enforced, View, InForce, Adding

\* The views do not change.
Same(s) == View(s)' = View(s) /\ (InForce(s)' <=> InForce(s))

\* A step that changes no view is a stuttering step of the lifecycle.
LEMMA Stutters ==
  ASSUME \A s \in SessionIds : Same(s)
  PROVE  UNCHANGED Lifecycle!vars
BY ViewFacts DEF Same, Lifecycle!vars

\* A step that changes the views of one session is what the lifecycle lets become of it.
LEMMA OneChanges ==
  ASSUME NEW s \in SessionIds, \A x \in SessionIds \ {s} : Same(x),
         \/ View(s) = "none" /\ View(s)' = "REQUESTED" /\ ~InForce(s) /\ ~InForce(s)'
         \/ View(s) = "REQUESTED" /\ View(s)' = "AVAILABLE" /\ InForce(s)'
         \/ View(s) = "REQUESTED" /\ View(s)' = "UNAVAILABLE" /\ ~InForce(s) /\ ~InForce(s)'
         \/ View(s)' = View(s) /\ InForce(s) /\ ~InForce(s)'
         \/ View(s) = "AVAILABLE" /\ View(s)' = "UNAVAILABLE" /\ ~InForce(s) /\ ~InForce(s)'
         \/ View(s) \in {"AVAILABLE", "UNAVAILABLE"} /\ View(s)' = "gone" /\ ~InForce(s)'
  PROVE  Lifecycle!Next
<1> USE ViewFacts DEF Same, Lifecycle!Become
<1>1. CASE View(s) = "none" /\ View(s)' = "REQUESTED" /\ ~InForce(s) /\ ~InForce(s)'
  <2>1. Lifecycle!Request(s)
    BY <1>1 DEF Lifecycle!Request
  <2> QED
    BY <2>1 DEF Lifecycle!Next
<1>2. CASE View(s) = "REQUESTED" /\ View(s)' = "AVAILABLE" /\ InForce(s)'
  <2>1. Lifecycle!Grant(s)
    BY <1>2 DEF Lifecycle!Grant
  <2> QED
    BY <2>1 DEF Lifecycle!Next
<1>3. CASE View(s) = "REQUESTED" /\ View(s)' = "UNAVAILABLE" /\ ~InForce(s) /\ ~InForce(s)'
  <2>1. Lifecycle!Refuse(s)
    BY <1>3 DEF Lifecycle!Refuse
  <2> QED
    BY <2>1 DEF Lifecycle!Next
<1>4. CASE View(s)' = View(s) /\ InForce(s) /\ ~InForce(s)'
  <2>1. Lifecycle!Release(s)
    BY <1>4 DEF Lifecycle!Release
  <2> QED
    BY <2>1 DEF Lifecycle!Next
<1>5. CASE View(s) = "AVAILABLE" /\ View(s)' = "UNAVAILABLE" /\ ~InForce(s) /\ ~InForce(s)'
  <2>1. Lifecycle!End(s)
    BY <1>5 DEF Lifecycle!End
  <2> QED
    BY <2>1 DEF Lifecycle!Next
<1>6. CASE View(s) \in {"AVAILABLE", "UNAVAILABLE"} /\ View(s)' = "gone" /\ ~InForce(s)'
  <2>1. Lifecycle!Forget(s)
    BY <1>6 DEF Lifecycle!Forget
  <2> QED
    BY <2>1 DEF Lifecycle!Next
<1> QED
  BY <1>1, <1>2, <1>3, <1>4, <1>5, <1>6

\* Every step of the session manager is one of the lifecycle, or none.
LEMMA LifecycleStep ==
  ASSUME OneAtATime
  PROVE  TypeOK /\ IdInv /\ SoundInv /\ SerialInv /\ [Next]_vars => [Lifecycle!Next]_(Lifecycle!vars)
<1> SUFFICES ASSUME TypeOK, IdInv, SoundInv, SerialInv, [Next]_vars
             PROVE  Lifecycle!Next \/ UNCHANGED Lifecycle!vars
  OBVIOUS
<1>0. \A t \in Threads :
        /\ ExtendSession(t) => ExtendOutcome(t)
        /\ handle_pcf_session_response(t) => ResponseOutcome(t)
        /\ FailSession(t) => FailOutcome(t)
        /\ MarkDeleted(t) => MarkOutcome(t)
  BY Outcomes
<1> USE OneAtATime, ConstantsAssumption, NullAssumption
        DEF OneAtATime, TypeOK, IdInv, Stored, Goto, Return, SetCopy, Idle, store, locals, cleaner
\* The store, the PCF and the ids stay, and nobody starts or ends storing a session.
<1> DEFINE Quiet == /\ UNCHANGED <<sessions, app_sessions, used>>
                    /\ \A t \in Threads : pc[t] # "add" /\ pc'[t] # "add"
<1>1. Quiet => UNCHANGED Lifecycle!vars
  BY Stutters DEF Same, View, InForce, Adding
<1>2. ASSUME NEW t \in Threads,
             \/ create_or_update_ue_state(t) \/ handle_pcf_session_response(t) \/ update_pcf_session_map(t)
             \/ NotifyResponse(t) \/ NotifyFailed(t) \/ DeleteSession(t) \/ ExtendSession(t)
             \/ remove_pcf_to_qod_session_mapping(t) \/ MarkDeleted(t) \/ NotifyDeleted(t)
      PROVE  Quiet
  BY <1>2 DEF create_or_update_ue_state, handle_pcf_session_response, update_pcf_session_map, NotifyResponse,
     NotifyFailed, DeleteSession, ExtendSession, remove_pcf_to_qod_session_mapping, MarkDeleted, NotifyDeleted,
     AfterResponse
<1>3. ASSUME CollectExpired \/ Stop \/ Tick \/ UNCHANGED vars PROVE UNCHANGED Lifecycle!vars
  <2>1. UNCHANGED <<sessions, app_sessions, used, pc, copy>>
    BY <1>3 DEF CollectExpired, Stop, Tick, vars
  <2> QED
    BY <2>1, Stutters DEF Same, View, InForce, Adding
<1>4. ASSUME NEW t \in Threads, CreateSession(t) PROVE UNCHANGED Lifecycle!vars
  <2>1. PICK id \in SessionIds : id \notin used /\ used' = used \cup {id} /\ copy'[t].id = id
    BY <1>4 DEF CreateSession, generate_session_id
  <2>2. pc[t] = "idle" /\ pc'[t] = "add" /\ UNCHANGED <<sessions, app_sessions>>
    BY <1>4 DEF CreateSession
  <2> QED
    BY <2>1, <2>2, Stutters DEF Same, View, InForce, Adding
<1>5. ASSUME NEW t \in Threads, AddSession(t) PROVE Lifecycle!Next
  <2>1. /\ pc[t] = "add" /\ pc'[t] = "ue_state" /\ UNCHANGED <<copy, used, app_sessions>>
        /\ sessions' = [sessions EXCEPT ![copy[t].id] = copy[t]]
        /\ copy[t] \in QodSession /\ copy[t].id \in SessionIds /\ ~Stored(copy[t].id)
        /\ copy[t].status = "REQUESTED" /\ copy[t].pcf = Null
    BY <1>5, SessionFields DEF AddSession, add_session, SoundInv, Creating
  <2>2. \A x \in SessionIds \ {copy[t].id} : Same(x)
    BY <2>1 DEF Same, View, InForce, Adding
  <2>3. /\ View(copy[t].id) = "none" /\ View(copy[t].id)' = "REQUESTED"
        /\ ~InForce(copy[t].id) /\ ~InForce(copy[t].id)'
    BY <2>1 DEF View, InForce, Adding
  <2> QED
    BY <2>1, <2>2, <2>3, OneChanges
<1>6. ASSUME NEW t \in Threads, apply_session_to_pcf(t) PROVE UNCHANGED Lifecycle!vars
  <2>1. /\ pc[t] = "apply" /\ pc'[t] # "add" /\ UNCHANGED <<sessions, used>>
        /\ \A p \in PcfIds : app_sessions'[p] = app_sessions[p] \/ app_sessions[p] = "unused"
    BY <1>6 DEF apply_session_to_pcf
  <2>2. ASSUME NEW s \in SessionIds, Stored(s), sessions[s].pcf # Null
        PROVE  sessions[s].pcf \in PcfIds /\ app_sessions[sessions[s].pcf] # "unused"
    BY <2>2, SessionFields DEF SoundInv, Sound, Statuses
  <2> QED
    BY <2>1, <2>2, Stutters DEF Same, View, InForce, Adding
<1>7. ASSUME NEW t \in Threads, WriteResponse(t) PROVE Lifecycle!Next \/ UNCHANGED Lifecycle!vars
  <2>0. PICK s \in SessionIds : s = copy[t].id
    BY <1>7, SessionFields DEF WriteResponse, FailSession, WriteBack
  <2>1. /\ pc[t] = "write_response" /\ pc'[t] # "add" /\ UNCHANGED <<app_sessions, used>>
        /\ copy[t] \in QodSession /\ s = copy[t].id
        /\ \A x \in SessionIds : sessions'[x] = IF x = s /\ Stored(x) THEN copy[t] ELSE sessions[x]
    BY <1>7, <2>0 DEF WriteResponse, update_session
  <2>2. \A x \in SessionIds \ {s} : Same(x)
    BY <2>1 DEF Same, View, InForce, Adding
  <2>3. CASE ~Stored(s)
    <3>1. Same(s)
      BY <2>1, <2>3 DEF Same, View, InForce, Adding
    <3> QED
      BY <2>2, <3>1, Stutters
  <2>4. CASE Stored(s)
    <3>1. /\ sessions[s].status = "REQUESTED" /\ sessions[s].pcf = Null
          /\ copy[t].status \in {"AVAILABLE", "UNAVAILABLE"}
          /\ copy[t].status = "AVAILABLE" => copy[t].pcf \in PcfIds /\ app_sessions[copy[t].pcf] = "live"
          /\ copy[t].status = "UNAVAILABLE" => copy[t].pcf = Null
      BY <2>1, <2>4, SessionFields
         DEF SerialInv, RequestedInv, CopyInv, AppInv, Pending, Granting, Busy, Creating, SoundInv, Sound, Statuses
    <3>2. /\ View(s) = "REQUESTED" /\ View(s)' = copy[t].status /\ ~InForce(s)
          /\ copy[t].status = "AVAILABLE" => InForce(s)'
          /\ copy[t].status = "UNAVAILABLE" => ~InForce(s)'
      BY <2>1, <2>4, <3>1 DEF View, InForce
    <3> QED
      BY <2>1, <2>2, <3>1, <3>2, OneChanges
  <2> QED
    BY <2>3, <2>4
<1>8. ASSUME NEW t \in Threads, FailSession(t) PROVE Lifecycle!Next \/ UNCHANGED Lifecycle!vars
  <2>0. PICK s \in SessionIds : s = copy[t].id
    BY <1>8, SessionFields DEF WriteResponse, FailSession, WriteBack
  <2>1. /\ pc[t] = "failed" /\ pc'[t] # "add" /\ UNCHANGED <<app_sessions, used>>
        /\ copy[t] \in QodSession /\ s = copy[t].id
        /\ \A x \in SessionIds : (x # s \/ ~Stored(x)) => sessions'[x] = sessions[x]
        /\ Stored(s) => /\ sessions'[s] \in QodSession /\ sessions'[s].status = "UNAVAILABLE"
                        /\ sessions'[s].pcf = sessions[s].pcf
    BY <1>0, <1>8, <2>0 DEF FailOutcome
  <2>2. \A x \in SessionIds : (x # s \/ ~Stored(x)) => Same(x)
    BY <2>1 DEF Same, View, InForce, Adding
  <2>3. CASE ~Stored(s)
    BY <2>2, <2>3, Stutters
  <2>4. CASE Stored(s)
    <3>1. sessions[s].status \in {"REQUESTED", "UNAVAILABLE"} /\ sessions[s].pcf = Null
      BY <2>1, <2>4, SessionFields DEF SerialInv, CopyInv, Busy, Creating, SoundInv, Statuses
    <3>2. View(s) = sessions[s].status /\ View(s)' = "UNAVAILABLE" /\ ~InForce(s) /\ ~InForce(s)'
      BY <2>1, <2>4, <3>1 DEF View, InForce
    <3>3. CASE sessions[s].status = "REQUESTED"
      BY <2>1, <2>2, <3>2, <3>3, OneChanges
    <3>4. CASE sessions[s].status = "UNAVAILABLE"
      BY <2>2, <3>2, <3>4, Stutters DEF Same
    <3> QED
      BY <3>1, <3>3, <3>4
  <2> QED
    BY <2>3, <2>4
<1>9. ASSUME NEW t \in Threads, remove_session_from_pcf(t) PROVE Lifecycle!Next \/ UNCHANGED Lifecycle!vars
  <2> DEFINE p == copy[t].pcf
  <2>1. /\ pc[t] = "remove" /\ pc'[t] # "add" /\ UNCHANGED <<sessions, used>>
        /\ copy[t] \in QodSession /\ p \in PcfIds
        /\ \/ UNCHANGED app_sessions
           \/ app_sessions[p] = "live" /\ app_sessions' = [app_sessions EXCEPT ![p] = "released"]
    BY <1>9, SessionFields DEF remove_session_from_pcf, SoundInv, Sound, Busy
  <2>2. CASE UNCHANGED app_sessions
    BY <2>1, <2>2, Stutters DEF Same, View, InForce, Adding
  <2>3. CASE app_sessions[p] = "live" /\ app_sessions' = [app_sessions EXCEPT ![p] = "released"]
    <3>1. ASSUME NEW x \in SessionIds, Stored(x), sessions[x].pcf = p
          PROVE  \A y \in SessionIds \ {x} : Stored(y) => sessions[y].pcf # p
      BY <2>1, <3>1 DEF SerialInv, AppInv
    <3>2. \A x \in SessionIds : (Stored(x) /\ sessions[x].pcf = p) \/ Same(x)
      BY <2>1, <2>3 DEF Same, View, InForce, Adding
    <3>3. ASSUME NEW x \in SessionIds, Stored(x), sessions[x].pcf = p
          PROVE  View(x)' = View(x) /\ InForce(x) /\ ~InForce(x)'
      BY <2>1, <2>3, <3>3 DEF View, InForce
    <3>4. CASE \E x \in SessionIds : Stored(x) /\ sessions[x].pcf = p
      BY <3>1, <3>2, <3>3, <3>4, OneChanges
    <3>5. CASE ~\E x \in SessionIds : Stored(x) /\ sessions[x].pcf = p
      BY <3>2, <3>5, Stutters
    <3> QED
      BY <3>4, <3>5
  <2> QED
    BY <2>1, <2>2, <2>3
<1>10. ASSUME NEW t \in Threads, WriteBack(t) PROVE Lifecycle!Next \/ UNCHANGED Lifecycle!vars
  <2>0. PICK s \in SessionIds : s = copy[t].id
    BY <1>10, SessionFields DEF WriteResponse, FailSession, WriteBack
  <2>1. /\ pc[t] = "write" /\ pc'[t] # "add" /\ UNCHANGED <<app_sessions, used>>
        /\ copy[t] \in QodSession /\ s = copy[t].id
        /\ \A x \in SessionIds : sessions'[x] = IF x = s /\ Stored(x) THEN copy[t] ELSE sessions[x]
    BY <1>10, <2>0 DEF WriteBack, update_session
  <2>2. \A x \in SessionIds : (x # s \/ ~Stored(x)) => Same(x)
    BY <2>1 DEF Same, View, InForce, Adding
  <2>3. CASE ~Stored(s)
    BY <2>2, <2>3, Stutters
  <2>4. CASE Stored(s)
    <3>1. sessions[s].status # "REQUESTED"
      BY <2>1, <2>4 DEF SerialInv, RequestedInv, Pending
    <3>2. /\ sessions[s].pcf = copy[t].pcf
          /\ sessions[s].status = copy[t].status \/ copy[t].status = "UNAVAILABLE"
      BY <2>1, <2>4 DEF SerialInv, CopyInv, Busy
    <3>3. View(s) = sessions[s].status /\ View(s)' = copy[t].status /\ (InForce(s)' <=> InForce(s))
      BY <2>1, <2>4, <3>2 DEF View, InForce
    <3>4. CASE sessions[s].status = copy[t].status
      BY <2>2, <3>3, <3>4, Stutters DEF Same
    <3>5. CASE sessions[s].status # copy[t].status
      <4>1. copy[t].status = "UNAVAILABLE" /\ sessions[s].status = "AVAILABLE"
        BY <2>4, <3>1, <3>2, <3>5, <2>1, SessionFields DEF Statuses
      <4>2. ~InForce(s)
        BY <2>1, <3>2, <4>1 DEF InForce, SoundInv, Sound, Busy
      <4> QED
        BY <2>1, <2>2, <3>3, <4>1, <4>2, OneChanges
    <3> QED
      BY <3>4, <3>5
  <2> QED
    BY <2>3, <2>4
<1>11. ASSUME RemoveExpired PROVE Lifecycle!Next \/ UNCHANGED Lifecycle!vars
  <2>1. PICK s \in expired : sessions' = [sessions EXCEPT ![s] = Null]
    BY <1>11 DEF RemoveExpired, remove_session
  <2>2. UNCHANGED <<app_sessions, used, pc, copy>> /\ s \in SessionIds
    BY <1>11 DEF RemoveExpired
  <2>3. \A x \in SessionIds : (x # s \/ ~Stored(x)) => Same(x)
    BY <2>1, <2>2 DEF Same, View, InForce, Adding
  <2>4. CASE ~Stored(s)
    BY <2>3, <2>4, Stutters
  <2>5. CASE Stored(s)
    <3>1. sessions[s].status \in {"AVAILABLE", "UNAVAILABLE"} /\ s \in used /\ ~Adding(s)
      BY <2>1, <2>2, <2>5, SessionFields DEF SerialInv, RequestedInv, Adding, Statuses
    <3>2. View(s) = sessions[s].status /\ View(s)' = "gone" /\ ~InForce(s)'
      BY <2>1, <2>2, <2>5, <3>1 DEF View, InForce, Adding
    <3> QED
      BY <2>2, <2>3, <3>1, <3>2, OneChanges
  <2> QED
    BY <2>4, <2>5
<1>12. ASSUME StopClear PROVE Lifecycle!Next
  <2>1. sessions' = [s \in SessionIds |-> Null] /\ UNCHANGED <<used, pc, copy>>
    BY <1>12 DEF StopClear, clear_all_sessions
  <2>2. ASSUME NEW s \in SessionIds
        PROVE  View(s)' = (IF View(s) = "none" THEN "none" ELSE "gone") /\ ~InForce(s)'
    <3>1. Stored(s) => s \in used /\ ~Adding(s) /\ sessions[s].status # "none"
      BY SessionFields DEF Adding, Statuses
    <3> QED
      BY <2>1, <3>1 DEF View, InForce, Adding
  <2>3. Lifecycle!Shutdown
    BY <2>2, ViewFacts DEF Lifecycle!Shutdown
  <2> QED
    BY <2>3 DEF Lifecycle!Next
<1> HIDE DEF Quiet
<1> QED
  BY <1>1, <1>2, <1>3, <1>4, <1>5, <1>6, <1>7, <1>8, <1>9, <1>10, <1>11, <1>12 DEF Next, Request, Continue

\* When requests do not overlap, create_session, delete_session, extend_session_duration,
\* the cleanup thread and stop refine the life of a session as a consumer sees it.
THEOREM LifecycleImplemented ==
  ASSUME OneAtATime
  PROVE  Spec => ImplementsLifecycle
<1>1. Init => Lifecycle!Init
  BY DEF Init, Lifecycle!Init, LifecycleStatus, Enforced, Stored
<1> QED
  BY <1>1, OneAtATime, LifecycleStep, SerialInvariants, PTL DEF Spec, ImplementsLifecycle, Lifecycle!Spec
=============================================================================
