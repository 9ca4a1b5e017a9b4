----------------------------- MODULE Qr2Proofs -----------------------------
(***************************************************************************)
(* Proofs about Qr2, for any number of heartbeats, sessions, rounds,       *)
(* packets and messages: types, and that a session which has not proved    *)
(* its key is being challenged.                                            *)
(***************************************************************************)
EXTENDS Qr2, TLAPS

-----------------------------------------------------------------------------
(* Types *)

\* A goroutine that still sends has rounds left and something to send.
GoodBeat(h) ==
  /\ h \in BeatStates
  /\ h.at \in {"none", "challenge", "send", "check"} => h.sends < MaxSends
  /\ h.at \in {"send", "check", "remove"} => h.challenge \in Beats

\* A message that has a receiver names it.
GoodMsg(h) ==
  /\ h \in MsgStates
  /\ h.at \in {"found", "wait"} => h.n \in Numbers

BeatsOK == beat \in [Beats -> BeatStates] /\ \A b \in Beats : GoodBeat(beat[b])
MsgsOK == msg \in [Msgs -> MsgStates] /\ \A m \in Msgs : GoodMsg(msg[m])

\* The rest of TypeOK.
TableOK ==
  /\ current \in 0 .. MaxSessions
  /\ created \in 0 .. MaxSessions
  /\ challenge \in [Numbers -> 0 .. MaxBeats]
  /\ proved \subseteq Numbers
  /\ alive \in [Numbers -> Ages]
  /\ excused \subseteq Numbers
  /\ beats \in 0 .. MaxBeats
  /\ heard \subseteq Beats
  /\ work \subseteq Packet
  /\ holder \in [Numbers -> Msgs \cup {None}]
  /\ waker \in [Numbers -> BOOLEAN]

TypeInv == TableOK /\ BeatsOK /\ MsgsOK

\* Handlers of heartbeats, messages and packets, and their parts.
LEMMA BeatParts ==
  /\ \A h \in BeatStates : /\ h.at \in {"none", "challenge", "send", "check", "remove", "done"}
                           /\ h.challenge \in 0 .. MaxBeats
                           /\ h.sends \in 0 .. MaxSends
  /\ \A x \in {"none", "challenge", "send", "check", "remove", "done"} :
       \A ch \in 0 .. MaxBeats, k \in 0 .. MaxSends : At(x, ch, k) \in BeatStates
  /\ \A x, ch, k : At(x, ch, k).at = x /\ At(x, ch, k).challenge = ch /\ At(x, ch, k).sends = k
BY DEF BeatStates, At

LEMMA MsgParts ==
  /\ \A h \in MsgStates : /\ h.at \in {"none", "found", "wait", "done"}
                          /\ h.n \in 0 .. MaxSessions
                          /\ h.timeouts \in 0 .. MaxTimeouts
  /\ \A x \in {"none", "found", "wait", "done"}, n \in 0 .. MaxSessions, k \in 0 .. MaxTimeouts :
       Msg(x, n, k) \in MsgStates
  /\ \A x, n, k : Msg(x, n, k).at = x /\ Msg(x, n, k).n = n /\ Msg(x, n, k).timeouts = k
BY DEF MsgStates, Msg

LEMMA PacketParts ==
  /\ \A p \in Packet : p.n \in Numbers
  /\ \A n \in Numbers, ch \in Beats : [kind |-> "answer", n |-> n, challenge |-> ch] \in Packet
  /\ \A n \in Numbers, kind \in {"keepalive", "ack", "other"} : [kind |-> kind, n |-> n] \in Packet
BY DEF Packet

\* The handler of one heartbeat, or one message, moves on.
LEMMA BeatMoves ==
  ASSUME BeatsOK, NEW b \in Beats, NEW h, GoodBeat(h), beat' = [beat EXCEPT ![b] = h]
  PROVE  BeatsOK'
BY DEF BeatsOK, GoodBeat

LEMMA MsgMoves ==
  ASSUME MsgsOK, NEW m \in Msgs, NEW h, GoodMsg(h), msg' = [msg EXCEPT ![m] = h]
  PROVE  MsgsOK'
BY DEF MsgsOK, GoodMsg

LEMMA Unmoved ==
  /\ BeatsOK /\ UNCHANGED beat => BeatsOK'
  /\ MsgsOK /\ UNCHANGED msg => MsgsOK'
BY DEF BeatsOK, MsgsOK, GoodBeat, GoodMsg

\* What NextRound makes of a goroutine that has rounds left.
LEMMA NextRoundParts ==
  ASSUME BeatsOK, NEW b \in Beats, beat[b].at \in {"send", "check"}
  PROVE  /\ GoodBeat(NextRound(b))
         /\ NextRound(b).at \in {"send", "remove"}
         /\ NextRound(b).challenge = beat[b].challenge
<1>1. beat[b].sends \in 0 .. MaxSends /\ beat[b].sends < MaxSends /\ beat[b].challenge \in Beats
  BY BeatParts DEF BeatsOK, GoodBeat
<1>2. CASE beat[b].sends + 1 < MaxSends
  <2>1. NextRound(b) = At("send", beat[b].challenge, beat[b].sends + 1)
    BY <1>2 DEF NextRound
  <2> QED
    BY <1>1, <1>2, <2>1, BeatParts, Qr2Assumption, SMTT(30) DEF GoodBeat, Beats
<1>3. CASE ~(beat[b].sends + 1 < MaxSends)
  <2>1. NextRound(b) = At("remove", beat[b].challenge, beat[b].sends + 1)
    BY <1>3 DEF NextRound
  <2> QED
    BY <1>1, <1>3, <2>1, BeatParts, Qr2Assumption DEF GoodBeat, Beats
<1> QED
  BY <1>2, <1>3

LEMMA DoneIsGood == GoodBeat(At("done", 0, 0)) /\ GoodMsg(Msg("done", 0, 0))
BY BeatParts, MsgParts, Qr2Assumption DEF GoodBeat, GoodMsg

LEMMA TypeStep == TypeInv /\ [Next]_vars => TypeInv'
<1> SUFFICES ASSUME TypeInv, [Next]_vars PROVE TypeInv'
  OBVIOUS
<1> USE Qr2Assumption
<1> USE DEF TypeInv, TableOK, Numbers, Beats, sessionVars, tableVars, beatVars, msgVars
<1>1. ASSUME NEW noIP \in BOOLEAN, Heartbeat(noIP) PROVE TypeInv'
  <2>1. TableOK' /\ current' \in Numbers
    BY <1>1, SMTT(30) DEF Heartbeat, SetSessionData, Ages
  <2>2. GoodBeat(At("challenge", challenge[current'], 0))
    BY <2>1, BeatParts, SMTT(30) DEF GoodBeat
  <2>3. PICK h : GoodBeat(h) /\ beat' = [beat EXCEPT ![beats + 1] = h]
    BY <1>1, <2>2, DoneIsGood DEF Heartbeat
  <2>4. beats + 1 \in Beats
    BY <1>1 DEF Heartbeat
  <2>5. BeatsOK'
    BY <2>3, <2>4, BeatMoves
  <2> QED
    BY <1>1, <2>1, <2>5, Unmoved DEF Heartbeat
<1>2. ASSUME ServerShutDown PROVE TypeInv'
  BY <1>2, Unmoved DEF ServerShutDown, RemoveSession
<1>3. ASSUME NEW b \in Beats, SendChallenge(b) PROVE TypeInv'
  <2>1. beat[b].challenge \in 0 .. MaxBeats
    BY BeatParts DEF BeatsOK, GoodBeat
  <2>2. /\ GoodBeat(At("send", b, 0))
        /\ beat[b].challenge # 0 => GoodBeat(At("send", beat[b].challenge, 0))
    BY <2>1, BeatParts, SMTT(30) DEF GoodBeat
  <2>3. PICK h : GoodBeat(h) /\ beat' = [beat EXCEPT ![b] = h]
    BY <1>3, <2>2, DoneIsGood DEF SendChallenge
  <2>4. TableOK'
    BY <1>3, SMTT(30) DEF SendChallenge
  <2> QED
    BY <1>3, <2>3, <2>4, BeatMoves, Unmoved DEF SendChallenge
<1>4. ASSUME NEW b \in Beats, Send(b) PROVE TypeInv'
  <2>1. /\ GoodBeat(NextRound(b))
        /\ beat[b].challenge \in Beats
        /\ beat[b].sends \in 0 .. MaxSends /\ beat[b].sends < MaxSends
    BY <1>4, NextRoundParts, BeatParts DEF Send, BeatsOK, GoodBeat
  <2>2. GoodBeat(At("check", beat[b].challenge, beat[b].sends))
    BY <2>1, BeatParts, SMTT(30) DEF GoodBeat
  <2>3. PICK h : GoodBeat(h) /\ beat' = [beat EXCEPT ![b] = h]
    BY <1>4, <2>1, <2>2 DEF Send
  <2>4. TableOK'
    BY <1>4, <2>1 DEF Send
  <2> QED
    BY <1>4, <2>3, <2>4, BeatMoves, Unmoved DEF Send
<1>5. ASSUME NEW b \in Beats, Check(b) PROVE TypeInv'
  <2>1. GoodBeat(NextRound(b))
    BY <1>5, NextRoundParts DEF Check
  <2>2. PICK h : GoodBeat(h) /\ beat' = [beat EXCEPT ![b] = h]
    BY <1>5, <2>1, DoneIsGood DEF Check
  <2> QED
    BY <1>5, <2>2, BeatMoves, Unmoved DEF Check
<1>6. ASSUME NEW b \in Beats, Remove(b) PROVE TypeInv'
  <2>1. BeatsOK'
    BY <1>6, BeatMoves, DoneIsGood DEF Remove
  <2> QED
    BY <1>6, <2>1, Unmoved DEF Remove, RemoveSession
<1>7. ASSUME ConsoleSends PROVE TypeInv'
  <2>1. CASE \E ch \in heard : Lookup([kind |-> "answer", n |-> current, challenge |-> ch])
    <3>1. PICK ch \in heard : Lookup([kind |-> "answer", n |-> current, challenge |-> ch])
      BY <2>1
    <3>2. [kind |-> "answer", n |-> current, challenge |-> ch] \in Packet
      BY <1>7, PacketParts DEF ConsoleSends
    <3> QED
      BY <3>1, <3>2, Unmoved DEF Lookup
  <2>2. CASE \E kind \in {"keepalive", "ack", "other"} : Lookup([kind |-> kind, n |-> current])
    <3>1. PICK kind \in {"keepalive", "ack", "other"} : Lookup([kind |-> kind, n |-> current])
      BY <2>2
    <3>2. [kind |-> kind, n |-> current] \in Packet
      BY <1>7, PacketParts DEF ConsoleSends
    <3> QED
      BY <3>1, <3>2, Unmoved DEF Lookup
  <2> QED
    BY <1>7, <2>1, <2>2 DEF ConsoleSends
<1>8. ASSUME NEW p \in work, Handle(p) PROVE TypeInv'
  BY <1>8, PacketParts, Unmoved, ZenonT(60) DEF Handle, Ages
<1>9. ASSUME Age PROVE TypeInv'
  <2>1. TableOK'
    BY <1>9 DEF Age, Ages
  <2> QED
    BY <1>9, <2>1, Unmoved DEF Age
<1>10. ASSUME ListServers PROVE TypeInv'
  BY <1>10, Unmoved DEF ListServers, RemoveSession
<1>11. ASSUME NEW m \in Msgs, FindReceiver(m) PROVE TypeInv'
  <2>1. current # 0 => GoodMsg(Msg("found", current, 0))
    BY MsgParts DEF GoodMsg
  <2>2. PICK h : GoodMsg(h) /\ msg' = [msg EXCEPT ![m] = h]
    BY <1>11, <2>1, DoneIsGood DEF FindReceiver
  <2> QED
    BY <1>11, <2>2, MsgMoves, Unmoved DEF FindReceiver
<1>12. ASSUME NEW m \in Msgs, LockReceiver(m) PROVE TypeInv'
  <2>1. msg[m].n \in Numbers
    BY <1>12 DEF LockReceiver, MsgsOK, GoodMsg
  <2>2. GoodMsg(Msg("wait", msg[m].n, 0))
    BY <2>1, MsgParts, SMTT(30) DEF GoodMsg
  <2>3. TableOK'
    BY <1>12, <2>1 DEF LockReceiver
  <2> QED
    BY <1>12, <2>2, <2>3, MsgMoves, Unmoved DEF LockReceiver
<1>13. ASSUME NEW m \in Msgs, Done(m) PROVE MsgsOK' /\ holder' \in [Numbers -> Msgs \cup {None}]
  BY <1>13, MsgMoves, DoneIsGood DEF Done
<1>14. ASSUME NEW m \in Msgs, Acknowledged(m) PROVE TypeInv'
  BY <1>13, <1>14, Unmoved DEF Acknowledged
<1>15. ASSUME NEW m \in Msgs, TimedOut(m) PROVE TypeInv'
  <2>1. CASE msg[m].timeouts < MaxTimeouts
    <3>1. /\ msg[m].n \in Numbers
          /\ msg[m].timeouts \in 0 .. MaxTimeouts
      BY <1>15, MsgParts DEF TimedOut, MsgsOK, GoodMsg
    <3>2. GoodMsg(Msg("wait", msg[m].n, msg[m].timeouts + 1))
      BY <2>1, <3>1, MsgParts, SMTT(30) DEF GoodMsg
    <3>3. MsgsOK' \/ Done(m)
      BY <1>15, <3>2, MsgMoves DEF TimedOut
    <3> QED
      BY <1>13, <1>15, <3>3, Unmoved DEF TimedOut
  <2>2. CASE ~(msg[m].timeouts < MaxTimeouts)
    BY <1>13, <1>15, <2>2, Unmoved DEF TimedOut
  <2> QED
    BY <2>1, <2>2
<1>16. ASSUME Restart PROVE TypeInv'
  <2>1. BeatsOK'
    BY <1>16, DoneIsGood DEF Restart, BeatsOK, GoodBeat
  <2>2. MsgsOK'
    BY <1>16, DoneIsGood DEF Restart, MsgsOK, GoodMsg
  <2> QED
    BY <1>16, <2>1, <2>2 DEF Restart
<1>17. CASE UNCHANGED vars
  BY <1>17, Unmoved DEF vars
<1> QED
  BY <1>1, <1>2, <1>3, <1>4, <1>5, <1>6, <1>7, <1>8, <1>9, <1>10, <1>11, <1>12, <1>14,
     <1>15, <1>16, <1>17 DEF Next

LEMMA TypeInit == Init => TypeInv
BY Qr2Assumption, BeatParts, MsgParts
   DEF Init, TypeInv, TableOK, BeatsOK, MsgsOK, GoodBeat, GoodMsg, Numbers, Beats, Ages

LEMMA TypeInvariant == Spec => []TypeInv
BY TypeInit, TypeStep, PTL DEF Spec

\* Sessions, goroutines and messages are well typed: in particular no goroutine sends more
\* than its rounds (challenge.go), and a message that waits has a receiver (message.go).
THEOREM TypeCorrect == Spec => []TypeOK
<1>1. TypeInv => TypeOK
  BY DEF TypeInv, TableOK, BeatsOK, MsgsOK, TypeOK
<1> QED
  BY <1>1, TypeInvariant, PTL

-----------------------------------------------------------------------------
(* Challenges *)

\* Sessions that have not been created and heartbeats that have not come are untouched; a
\* session that is not excused is fresh.
Untouched ==
  /\ current <= created
  /\ \A p \in work : p.n <= created
  /\ \A n \in Numbers : n > created => challenge[n] = 0 /\ n \notin proved /\ alive[n] = "fresh"
  /\ \A b \in Beats : b > beats => beat[b].at = "none"
  /\ current # 0 /\ current \notin excused => alive[current] = "fresh"

LEMMA UntouchedStep == TypeInv /\ Untouched /\ [Next]_vars => Untouched'
<1> SUFFICES ASSUME TypeInv, Untouched, [Next]_vars PROVE Untouched'
  OBVIOUS
<1> USE Qr2Assumption
<1> USE DEF TypeInv, TableOK, Untouched, Numbers, Beats, sessionVars, tableVars, beatVars, msgVars
<1>1. ASSUME NEW noIP \in BOOLEAN, Heartbeat(noIP) PROVE Untouched'
  <2>1. \A b \in Beats : b > beats + 1 => beat'[b] = beat[b]
    BY <1>1 DEF Heartbeat, BeatsOK
  <2> QED
    BY <1>1, <2>1, PacketParts, SMTT(30) DEF Heartbeat, SetSessionData
<1>2. ASSUME NEW b \in Beats, NEW h, beat' = [beat EXCEPT ![b] = h], UNCHANGED beats,
             beat[b].at # "none"
      PROVE  \A c \in Beats : c > beats' => beat'[c].at = "none"
  BY <1>2 DEF BeatsOK
<1>3. ASSUME NEW b \in Beats, SendChallenge(b) PROVE Untouched'
  <2>1. \A c \in Beats : c > beats' => beat'[c].at = "none"
    BY <1>2, <1>3 DEF SendChallenge
  <2> QED
    BY <1>3, <2>1 DEF SendChallenge
<1>4. ASSUME NEW b \in Beats, Send(b) PROVE Untouched'
  <2>1. \A c \in Beats : c > beats' => beat'[c].at = "none"
    BY <1>2, <1>4 DEF Send
  <2> QED
    BY <1>4, <2>1 DEF Send
<1>5. ASSUME NEW b \in Beats, Check(b) PROVE Untouched'
  <2>1. \A c \in Beats : c > beats' => beat'[c].at = "none"
    BY <1>2, <1>5 DEF Check
  <2> QED
    BY <1>5, <2>1 DEF Check
<1>6. ASSUME NEW b \in Beats, Remove(b) PROVE Untouched'
  <2>1. \A c \in Beats : c > beats' => beat'[c].at = "none"
    BY <1>2, <1>6 DEF Remove
  <2> QED
    BY <1>6, <2>1 DEF Remove, RemoveSession
<1>7. ASSUME ConsoleSends PROVE Untouched'
  <2>1. ASSUME NEW ch \in heard, Lookup([kind |-> "answer", n |-> current, challenge |-> ch])
        PROVE  Untouched'
    BY <2>1 DEF Lookup
  <2>2. ASSUME NEW kind \in {"keepalive", "ack", "other"}, Lookup([kind |-> kind, n |-> current])
        PROVE  Untouched'
    BY <2>2 DEF Lookup
  <2> QED
    BY <1>7, <2>1, <2>2 DEF ConsoleSends
<1>8. ASSUME NEW p \in work, Handle(p) PROVE Untouched'
  <2>1. p.n \in Numbers /\ p.n <= created
    BY PacketParts
  <2>2. /\ UNCHANGED <<current, created, challenge, excused, beats, beat>>
        /\ work' \subseteq work
        /\ proved' \subseteq proved \cup {p.n}
        /\ alive' \in {alive, [alive EXCEPT ![p.n] = "fresh"]}
    BY <1>8 DEF Handle
  <2>3. \A n \in Numbers : alive'[n] = alive[n] \/ alive'[n] = "fresh"
    BY <2>1, <2>2
  <2>4. \A n \in Numbers : n > created' => challenge'[n] = 0 /\ n \notin proved' /\ alive'[n] = "fresh"
    BY <2>1, <2>2, <2>3, SMTT(30)
  <2>5. current' # 0 /\ current' \notin excused' => alive'[current'] = "fresh"
    BY <2>2, <2>3
  <2>6. current' <= created' /\ \A w \in work' : w.n <= created'
    BY <2>2
  <2>7. \A b \in Beats : b > beats' => beat'[b].at = "none"
    BY <2>2
  <2> QED
    BY <2>4, <2>5, <2>6, <2>7
<1>9. ASSUME Age PROVE Untouched'
  <2>1. current \in Numbers /\ current' = current /\ current \in excused'
    BY <1>9 DEF Age
  <2>2. \A n \in Numbers : n # current => alive'[n] = alive[n]
    BY <1>9 DEF Age
  <2>3. UNCHANGED <<created, challenge, proved, work, beats, beat>>
    BY <1>9 DEF Age
  <2>4. \A n \in Numbers : n > created => n # current
    OBVIOUS
  <2> QED
    BY <2>1, <2>2, <2>3, <2>4
<1>10. ASSUME ListServers \/ ServerShutDown PROVE Untouched'
  BY <1>10 DEF ListServers, ServerShutDown, RemoveSession
<1>11. ASSUME NEW m \in Msgs,
              FindReceiver(m) \/ LockReceiver(m) \/ Acknowledged(m) \/ TimedOut(m)
       PROVE  Untouched'
  BY <1>11, ZenonT(60) DEF FindReceiver, LockReceiver, Acknowledged, TimedOut
<1>12. ASSUME Restart PROVE Untouched'
  BY <1>12 DEF Restart
<1>13. CASE UNCHANGED vars
  BY <1>13 DEF vars
<1> QED
  BY <1>1, <1>3, <1>4, <1>5, <1>6, <1>7, <1>8, <1>9, <1>10, <1>11, <1>12, <1>13 DEF Next

\* The handler or goroutine h challenges the session in the map.
Challenges(h) ==
  IF challenge[current] = 0
    THEN h.at = "challenge" /\ h.challenge = 0
    ELSE h.at \in {"send", "check", "remove"} /\ h.challenge = challenge[current]

LEMMA ChallengeStep == TypeInv /\ Untouched /\ BeingChallenged /\ [Next]_vars => BeingChallenged'
<1> SUFFICES ASSUME TypeInv, Untouched, BeingChallenged, [Next]_vars,
                    current' # 0, current' \notin excused', current' \notin proved'
             PROVE  \E b \in Beats : Challenges(beat[b])'
  BY DEF BeingChallenged, Challenges
<1> USE Qr2Assumption
<1> USE DEF TypeInv, TableOK, Numbers, Beats, sessionVars, tableVars, beatVars, msgVars
<1>1. ASSUME current # 0, current \notin excused, current \notin proved
      PROVE  \E b \in Beats : Challenges(beat[b])
  BY <1>1 DEF BeingChallenged, Challenges
<1>2. ASSUME NEW noIP \in BOOLEAN, Heartbeat(noIP) PROVE \E b \in Beats : Challenges(beat[b])'
  <2>1. CASE current = 0
    <3>1. challenge'[current'] = 0 /\ challenge[current'] = 0
      BY <1>2, <2>1 DEF Heartbeat, SetSessionData, Untouched
    <3>2. beat'[beats + 1] = At("challenge", 0, 0)
      BY <1>2, <3>1 DEF Heartbeat, BeatsOK
    <3>3. beat'[beats + 1].at = "challenge" /\ beat'[beats + 1].challenge = 0
      BY <3>2, BeatParts
    <3>4. beats + 1 \in Beats
      BY <1>2 DEF Heartbeat
    <3> QED
      BY <3>1, <3>3, <3>4 DEF Challenges
  <2>2. CASE current # 0
    <3>1. /\ UNCHANGED <<current, challenge, excused, proved>>
      BY <1>2, <2>2 DEF Heartbeat, SetSessionData
    <3>2. PICK b \in Beats : Challenges(beat[b])
      BY <1>1, <2>2, <3>1
    <3>3. b # beats + 1
      BY <3>2 DEF Challenges, Untouched
    <3>4. beat'[b] = beat[b]
      BY <1>2, <3>3 DEF Heartbeat, BeatsOK
    <3> QED
      BY <3>1, <3>2, <3>4 DEF Challenges
  <2> QED
    BY <2>1, <2>2
<1>3. ASSUME NEW b \in Beats, SendChallenge(b) PROVE \E c \in Beats : Challenges(beat[c])'
  <2>1. current # 0 /\ current \notin excused /\ current \notin proved
    BY <1>3 DEF SendChallenge
  <2>2. CASE beat[b].challenge = 0
    <3>1. challenge'[current'] = b /\ beat'[b] = At("send", b, 0)
      BY <1>3, <2>1, <2>2 DEF SendChallenge, BeatsOK
    <3>2. beat'[b].at = "send" /\ beat'[b].challenge = b
      BY <3>1, BeatParts
    <3> QED
      BY <3>1, <3>2 DEF Challenges
  <2>3. CASE beat[b].challenge # 0
    <3>1. PICK c \in Beats : Challenges(beat[c])
      BY <1>1, <2>1
    <3>2. UNCHANGED <<current, challenge>>
      BY <1>3, <2>3 DEF SendChallenge
    <3>3. b # c
      BY <1>3, <2>3, <3>1 DEF Challenges, SendChallenge
    <3>4. beat'[c] = beat[c]
      BY <1>3, <3>3, <2>3 DEF SendChallenge, BeatsOK
    <3> QED
      BY <3>1, <3>2, <3>4 DEF Challenges
  <2> QED
    BY <2>2, <2>3
<1>4. ASSUME NEW b \in Beats, NEW h, UNCHANGED <<current, challenge, excused, proved>>,
             beat' = [beat EXCEPT ![b] = h], Challenges(beat[b]) => Challenges(h)
      PROVE  \E c \in Beats : Challenges(beat[c])'
  <2>1. PICK c \in Beats : Challenges(beat[c])
    BY <1>1, <1>4
  <2>2. beat'[c] = IF c = b THEN h ELSE beat[c]
    BY <1>4 DEF BeatsOK
  <2>3. Challenges(beat'[c])
    BY <1>4, <2>1, <2>2
  <2> QED
    BY <1>4, <2>3 DEF Challenges
<1>5. ASSUME NEW b \in Beats, beat[b].at \in {"send", "check"}, Challenges(beat[b])
      PROVE  Challenges(NextRound(b)) /\ Challenges(At("check", beat[b].challenge, beat[b].sends))
  BY <1>5, NextRoundParts, BeatParts DEF Challenges
<1>6. ASSUME NEW b \in Beats, Send(b) PROVE \E c \in Beats : Challenges(beat[c])'
  <2>1. PICK h : beat' = [beat EXCEPT ![b] = h] /\ (Challenges(beat[b]) => Challenges(h))
    BY <1>5, <1>6 DEF Send
  <2> QED
    BY <1>4, <1>6, <2>1 DEF Send
<1>7. ASSUME NEW b \in Beats, Check(b) PROVE \E c \in Beats : Challenges(beat[c])'
  <2>1. beat' = [beat EXCEPT ![b] = NextRound(b)]
    BY <1>7 DEF Check, Untouched
  <2> QED
    BY <1>4, <1>5, <1>7, <2>1 DEF Check
<1>8. ASSUME UNCHANGED <<current, challenge, excused, beat>>, proved \subseteq proved'
      PROVE  \E c \in Beats : Challenges(beat[c])'
  BY <1>1, <1>8 DEF Challenges
<1>9. ASSUME ConsoleSends PROVE \E c \in Beats : Challenges(beat[c])'
  BY <1>8, <1>9 DEF ConsoleSends, Lookup
<1>10. ASSUME NEW p \in work, Handle(p) PROVE \E c \in Beats : Challenges(beat[c])'
  BY <1>8, <1>10 DEF Handle
<1>11. ASSUME NEW m \in Msgs,
              FindReceiver(m) \/ LockReceiver(m) \/ Acknowledged(m) \/ TimedOut(m)
       PROVE  \E c \in Beats : Challenges(beat[c])'
  BY <1>8, <1>11 DEF FindReceiver, LockReceiver, Acknowledged, TimedOut
<1>12. CASE UNCHANGED vars
  BY <1>8, <1>12 DEF vars
\* The other steps remove the session or excuse it.
<1>13. ~Age /\ ~Restart
  BY DEF Age, Restart
<1>14. ~ServerShutDown /\ ~ListServers /\ \A b \in Beats : ~Remove(b)
  BY DEF ServerShutDown, ListServers, Remove, RemoveSession
<1> QED
  BY <1>2, <1>3, <1>6, <1>7, <1>9, <1>10, <1>11, <1>12, <1>13, <1>14 DEF Next

\* Whatever overlaps (heartbeats, answers, goroutines of sessions that are gone, challenge.go),
\* a session that has not proved its key is being sent the challenge its answer is compared
\* with; for any number of heartbeats, sessions and rounds.
THEOREM AlwaysChallenged == Spec => []BeingChallenged
<1>1. Init => Untouched /\ BeingChallenged
  BY Qr2Assumption, BeatParts DEF Init, Untouched, BeingChallenged, Numbers, Beats
<1> QED
  BY <1>1, TypeInvariant, UntouchedStep, ChallengeStep, PTL DEF Spec
=============================================================================
