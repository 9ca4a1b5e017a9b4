-------------------------------- MODULE Qr2 --------------------------------
(***************************************************************************)
(* The QR2 server (qr2/): game servers announce themselves by heartbeats,  *)
(* prove by answering a challenge that they own the game's key, and are    *)
(* then listed and sent messages.                                          *)
(*                                                                         *)
(* Packets are handled by goroutines of their own; a handler looks up the  *)
(* session under the mutex and uses the pointer after it has given the     *)
(* mutex back.  A challenge is repeated by a goroutine that finds the      *)
(* session anew by its address.  The map is keyed by address, and sessions *)
(* of different addresses do not meet: one address is modelled.  Sessions  *)
(* under it are numbered in the order of their creation, and a challenge   *)
(* is named by the heartbeat that drew it.                                 *)
(***************************************************************************)
EXTENDS Naturals, FiniteSets

CONSTANTS Msgs,         \* messages sent by way of the server browser
          Kinds,        \* kinds of packets the console sends besides heartbeats
          None,         \* nothing
          MaxSends,     \* the 5 of sendChallenge
          MaxTimeouts,  \* the 10 of SendClientMessage
          Lapses,       \* TRUE: heartbeats and keep-alives may stay away for 60 s
          Restarts,     \* TRUE: the backend is restarted from its saved state
          MaxBeats,     \* bound on the heartbeats
          MaxSessions,  \* bound on the sessions created
          MaxPackets    \* bound on the packets being handled at a time

ASSUME Qr2Assumption ==
  /\ None \notin Msgs
  /\ Kinds \subseteq {"answer", "keepalive", "ack", "other"}
  /\ MaxSends \in Nat \ {0} /\ MaxTimeouts \in Nat
  /\ Lapses \in BOOLEAN /\ Restarts \in BOOLEAN
  /\ MaxBeats \in Nat /\ MaxSessions \in Nat /\ MaxPackets \in Nat

VARIABLES
  current,    \* sessions[addr]: the number of the session, or 0
  created,    \* number of sessions created
  challenge,  \* Challenge of each session; 0 is the empty string
  proved,     \* the sessions that are Authenticated
  alive,      \* the age of LastKeepAlive of each session
  excused,    \* ghost: sessions that were silent for a minute or were loaded from a file
  beats,      \* number of heartbeats received
  beat,       \* the handler of each heartbeat, and the goroutine it leaves
  heard,      \* challenges that have reached the console
  work,       \* packets that have a session and are still to be handled
  msg,        \* the SendClientMessage of each message
  holder,     \* messageMutex of each session
  waker       \* messageAckWaker of each session is asserted

sessionVars == <<challenge, proved, alive>>
tableVars == <<current, created, sessionVars, excused>>
beatVars == <<beats, beat, heard>>
msgVars == <<msg, holder>>
vars == <<tableVars, beatVars, work, msgVars, waker>>

Numbers == 1 .. MaxSessions
Beats == 1 .. MaxBeats

\* At most a minute, at most an hour, or more.
Ages == {"fresh", "stale", "dead"}

\* "challenge": in sendChallenge; "send", "check" and "remove": the goroutine.
BeatStates == [at : {"none", "challenge", "send", "check", "remove", "done"},
               challenge : 0 .. MaxBeats, sends : 0 .. MaxSends]

At(position, ch, sends) == [at |-> position, challenge |-> ch, sends |-> sends]

Packet == [kind : {"answer"}, n : Numbers, challenge : Beats]
          \cup [kind : {"keepalive", "ack", "other"}, n : Numbers]

MsgStates == [at : {"none", "found", "wait", "done"}, n : 0 .. MaxSessions,
              timeouts : 0 .. MaxTimeouts]

Msg(position, n, timeouts) == [at |-> position, n |-> n, timeouts |-> timeouts]

TypeOK ==
  /\ current \in 0 .. MaxSessions
  /\ created \in 0 .. MaxSessions
  /\ challenge \in [Numbers -> 0 .. MaxBeats]
  /\ proved \subseteq Numbers
  /\ alive \in [Numbers -> Ages]
  /\ excused \subseteq Numbers
  /\ beats \in 0 .. MaxBeats
  /\ beat \in [Beats -> BeatStates]
  /\ heard \subseteq Beats
  /\ work \subseteq Packet
  /\ msg \in [Msgs -> MsgStates]
  /\ holder \in [Numbers -> Msgs \cup {None}]
  /\ waker \in [Numbers -> BOOLEAN]

Init ==
  /\ current = 0
  /\ created = 0
  /\ challenge = [n \in Numbers |-> 0]
  /\ proved = {}
  /\ alive = [n \in Numbers |-> "fresh"]
  /\ excused = {}
  /\ beats = 0
  /\ beat = [b \in Beats |-> At("none", 0, 0)]
  /\ heard = {}
  /\ work = {}
  /\ msg = [m \in Msgs |-> Msg("none", 0, 0)]
  /\ holder = [n \in Numbers |-> None]
  /\ waker = [n \in Numbers |-> FALSE]

\* removeSession wakes whoever waits for an acknowledgement of the session.
RemoveSession ==
  /\ current' = 0
  /\ waker' = [n \in Numbers |-> waker[n] \/ n = current]

-----------------------------------------------------------------------------
(* heartbeat *)

\* The session is made, or refreshed; the caller goes on with a copy of it.
SetSessionData ==
  \/ /\ current # 0
     /\ alive' = [alive EXCEPT ![current] = "fresh"]
     /\ UNCHANGED <<current, created>>
  \/ /\ current = 0
     /\ created < MaxSessions
     /\ created' = created + 1
     /\ current' = created + 1
     /\ UNCHANGED alive

\* Without proof of the key, or without an address of its own (noIP), a challenge is
\* sent.  A heartbeat with a wrong address is ignored.
Heartbeat(noIP) ==
  /\ beats < MaxBeats
  /\ beats' = beats + 1
  /\ SetSessionData
  /\ beat' = [beat EXCEPT ![beats + 1] =
       IF current' \notin proved \/ noIP THEN At("challenge", challenge[current'], 0)
                                         ELSE At("done", 0, 0)]
  /\ UNCHANGED <<challenge, proved, excused, heard, work, msgVars, waker>>

\* statechanged is 2: the game server shuts down.
ServerShutDown ==
  /\ RemoveSession
  /\ UNCHANGED <<created, sessionVars, beatVars, work, msgVars, excused>>

\* Mutant: the challenge is noted in the copy of the session only.
SendChallengeLost(b) ==
  /\ beat[b].at = "challenge"
  /\ beat' = [beat EXCEPT ![b] = At("send", b, 0)]
  /\ UNCHANGED <<tableVars, beats, heard, work, msgVars, waker>>

\* sendChallenge: the copy decides whether a challenge is drawn, and it goes to the
\* session that is there by now.
SendChallenge(b) ==
  /\ beat[b].at = "challenge"
  /\ \/ /\ beat[b].challenge # 0
        /\ beat' = [beat EXCEPT ![b] = At("send", beat[b].challenge, 0)]
        /\ UNCHANGED challenge
     \/ /\ beat[b].challenge = 0
        /\ current = 0
        /\ beat' = [beat EXCEPT ![b] = At("done", 0, 0)]
        /\ UNCHANGED challenge
     \/ /\ beat[b].challenge = 0
        /\ current # 0
        /\ challenge' = [challenge EXCEPT ![current] = b]
        /\ beat' = [beat EXCEPT ![b] = At("send", b, 0)]
  /\ UNCHANGED <<current, created, proved, alive, excused, beats, heard, work, msgVars, waker>>

\* Mutant: one round too many.
NextRoundLate(b) ==
  At(IF beat[b].sends + 1 <= MaxSends THEN "send" ELSE "remove", beat[b].challenge, beat[b].sends + 1)

\* Mutant: the session is left in the map.
NextRoundKeeps(b) ==
  At(IF beat[b].sends + 1 < MaxSends THEN "send" ELSE "done", beat[b].challenge, beat[b].sends + 1)

\* After the last round the goroutine goes on to remove the session.
NextRound(b) ==
  At(IF beat[b].sends + 1 < MaxSends THEN "send" ELSE "remove", beat[b].challenge, beat[b].sends + 1)

\* The challenge is sent, and may be lost, or the write fails, which skips the check.
Send(b) ==
  /\ beat[b].at = "send"
  /\ \/ /\ beat' = [beat EXCEPT ![b] = At("check", beat[b].challenge, beat[b].sends)]
        /\ heard' \in {heard, heard \cup {beat[b].challenge}}
     \/ /\ beat' = [beat EXCEPT ![b] = NextRound(b)]
        /\ UNCHANGED heard
  /\ UNCHANGED <<tableVars, beats, work, msgVars, waker>>

\* A second later.
Check(b) ==
  /\ beat[b].at = "check"
  /\ beat' = [beat EXCEPT ![b] =
       IF current = 0 \/ current \in proved \/ alive[current] # "fresh"
         THEN At("done", 0, 0) ELSE NextRound(b)]
  /\ UNCHANGED <<tableVars, beats, heard, work, msgVars, waker>>

\* The mutex was given back after the last check.
Remove(b) ==
  /\ beat[b].at = "remove"
  /\ beat' = [beat EXCEPT ![b] = At("done", 0, 0)]
  /\ RemoveSession
  /\ UNCHANGED <<created, sessionVars, excused, beats, heard, work, msgVars>>

-----------------------------------------------------------------------------
(* The other packets: handleConnection looks the session up ... *)

Lookup(p) ==
  /\ p.kind \in Kinds
  /\ Cardinality(work) < MaxPackets
  /\ work' = work \cup {p}
  /\ UNCHANGED <<tableVars, beatVars, msgVars, waker>>

ConsoleSends ==
  /\ current # 0
  /\ \/ \E ch \in heard : Lookup([kind |-> "answer", n |-> current, challenge |-> ch])
     \/ \E kind \in {"keepalive", "ack", "other"} : Lookup([kind |-> kind, n |-> current])

\* ... and uses it, still in the map or not.  An answer is refused if it is not the one to
\* the challenge the session has now; a wrong one, or one of an unknown game, changes as
\* little as the packets that are only logged ("other").
Handle(p) ==
  /\ work' = work \ {p}
  /\ \/ /\ p.kind = "answer"
        /\ proved' = IF challenge[p.n] = p.challenge THEN proved \cup {p.n} ELSE proved
        /\ UNCHANGED <<alive, waker>>
     \/ /\ p.kind = "keepalive"
        /\ alive' = [alive EXCEPT ![p.n] = "fresh"]
        /\ UNCHANGED <<proved, waker>>
     \/ /\ p.kind = "ack"
        /\ waker' = [waker EXCEPT ![p.n] = TRUE]
        /\ UNCHANGED <<proved, alive>>
     \/ /\ p.kind = "other"
        /\ UNCHANGED <<proved, alive, waker>>
  /\ UNCHANGED <<current, created, challenge, excused, beatVars, msgVars>>

\* Time passes without a sign of life.
Age ==
  /\ Lapses
  /\ current # 0
  /\ \/ alive[current] = "fresh" /\ alive' = [alive EXCEPT ![current] = "stale"]
     \/ alive[current] = "stale" /\ alive' = [alive EXCEPT ![current] = "dead"]
  /\ excused' = excused \cup {current}
  /\ UNCHANGED <<current, created, challenge, proved, beatVars, work, msgVars, waker>>

\* GetSessionServers removes what has been silent for an hour.
ListServers ==
  /\ current # 0
  /\ alive[current] = "dead"
  /\ RemoveSession
  /\ UNCHANGED <<created, sessionVars, excused, beatVars, work, msgVars>>

-----------------------------------------------------------------------------
(* SendClientMessage *)

\* A message is dropped if nobody has the address, its owner has not proved its key, or
\* the message is malformed.
FindReceiver(m) ==
  /\ msg[m].at = "none"
  /\ \/ msg' = [msg EXCEPT ![m] = Msg("done", 0, 0)]
     \/ /\ current # 0
        /\ current \in proved
        /\ msg' = [msg EXCEPT ![m] = Msg("found", current, 0)]
  /\ UNCHANGED <<tableVars, beatVars, work, holder, waker>>

\* One message at a time for each session; the waker is cleared and the message sent.
LockReceiver(m) ==
  /\ msg[m].at = "found"
  /\ holder[msg[m].n] = None
  /\ holder' = [holder EXCEPT ![msg[m].n] = m]
  /\ waker' = [waker EXCEPT ![msg[m].n] = FALSE]
  /\ msg' = [msg EXCEPT ![m] = Msg("wait", msg[m].n, 0)]
  /\ UNCHANGED <<tableVars, beatVars, work>>

\* Mutant: messageMutex is not unlocked.
DoneLocked(m) ==
  /\ msg' = [msg EXCEPT ![m] = Msg("done", 0, 0)]
  /\ UNCHANGED holder

Done(m) ==
  /\ msg' = [msg EXCEPT ![m] = Msg("done", 0, 0)]
  /\ holder' = [holder EXCEPT ![msg[m].n] = None]

\* s.Fetch returns the waker of the session, or the one of the timer.
Acknowledged(m) ==
  /\ msg[m].at = "wait"
  /\ waker[msg[m].n]
  /\ waker' = [waker EXCEPT ![msg[m].n] = FALSE]
  /\ Done(m)
  /\ UNCHANGED <<tableVars, beatVars, work>>

TimedOut(m) ==
  /\ msg[m].at = "wait"
  /\ \/ /\ msg[m].timeouts < MaxTimeouts
        /\ msg' = [msg EXCEPT ![m] = Msg("wait", msg[m].n, msg[m].timeouts + 1)]
        /\ UNCHANGED holder
     \/ /\ msg[m].timeouts >= MaxTimeouts
        /\ Done(m)
  /\ UNCHANGED <<tableVars, beatVars, work, waker>>

-----------------------------------------------------------------------------

\* Shutdown waits for the handlers and saves the map; the goroutines that repeat
\* challenges and send messages end with the process.
Restart ==
  /\ Restarts
  /\ work = {}
  /\ \A b \in Beats : beat[b].at # "challenge"
  /\ beat' = [b \in Beats |-> IF beat[b].at = "none" THEN beat[b] ELSE At("done", 0, 0)]
  /\ msg' = [m \in Msgs |-> IF msg[m].at = "none" THEN msg[m] ELSE Msg("done", 0, 0)]
  /\ holder' = [n \in Numbers |-> None]
  /\ waker' = [n \in Numbers |-> FALSE]
  /\ excused' = excused \cup {n \in Numbers : n = current}
  /\ UNCHANGED <<current, created, sessionVars, beats, heard, work>>

Next ==
  \/ \E noIP \in BOOLEAN : Heartbeat(noIP)
  \/ ServerShutDown
  \/ \E b \in Beats : SendChallenge(b) \/ Send(b) \/ Check(b) \/ Remove(b)
  \/ ConsoleSends
  \/ \E p \in work : Handle(p)
  \/ Age
  \/ ListServers
  \/ \E m \in Msgs : FindReceiver(m) \/ LockReceiver(m) \/ Acknowledged(m) \/ TimedOut(m)
  \/ Restart

Spec == Init /\ [][Next]_vars

\* Goroutines run on and timers go off.  Nothing is assumed of the network.
Fairness ==
  /\ \A b \in Beats : WF_vars(SendChallenge(b) \/ Send(b) \/ Check(b) \/ Remove(b))
  /\ \A m \in Msgs : WF_vars(LockReceiver(m) \/ Acknowledged(m) \/ TimedOut(m))

FairSpec == Spec /\ Fairness

-----------------------------------------------------------------------------
(* Properties *)

\* A session that has not proved its key is being challenged, with the challenge its
\* answer is compared with: heartbeats that overlap, a session that is replaced while a
\* heartbeat of the old one draws the challenge, and goroutines of old sessions that
\* meet a new one do not leave it with a challenge nobody sends.  (A minute of silence ends
\* the goroutines, and a restart does not start them again.)
BeingChallenged ==
  current # 0 /\ current \notin excused /\ current \notin proved =>
    \E b \in Beats :
      IF challenge[current] = 0
        THEN beat[b].at = "challenge" /\ beat[b].challenge = 0
        ELSE beat[b].at \in {"send", "check", "remove"}
             /\ beat[b].challenge = challenge[current]

\* A session that has not proved its key does not stay: it does so, goes away or is
\* overtaken by a restart or a minute of silence.
ChallengeSettles ==
  \A n \in Numbers :
    current = n /\ n \notin proved ~> current # n \/ n \in proved \/ n \in excused

\* Whoever sends a message gets away in the end: with messages queued for one receiver,
\* acknowledgements that never come and a receiver that is removed in the meantime.
MessageEnds ==
  \A m \in Msgs : msg[m].at \in {"found", "wait"} ~> msg[m].at = "done"
=============================================================================
