--------------------------- MODULE FrontendProofs ---------------------------
(***************************************************************************)
(* Proofs about the restart protocol of frontend and backend: for any      *)
(* number of connections and restarts, with crashes anywhere, the state is *)
(* saved and loaded at rest, and the new backend and the frontend agree on *)
(* the connections that exist.  Together the two implement Handover.       *)
(***************************************************************************)
EXTENDS Frontend, TLAPS

\* Disciplined backend starts, and ReloadBackend only on an integrated frontend (on
\* a split one it unlocks rpcMutex twice).
Deployed == Disciplined /\ \A d \in Deployments : d.reloads => d.integrated

-----------------------------------------------------------------------------
(* The inductive invariant, in parts. *)

\* Who may hold rpcMutex, and what the backend is doing meanwhile.
Locking ==
  /\ fe = "up"
  /\ client => backend \in {"up", "stopping", "saved"}
  /\ ~locked => /\ req = "none" /\ waiters = 0 /\ dialing = 0
                /\ backend = "up" => client
                /\ backend \in {"off", "up"} \/ (backend = "starting" /\ ~Integrated)
  /\ req # "none" => waiters = 0 /\ dialing = 0
  /\ req \in {"reload", "restart"} => Integrated
  /\ req = "shutdown" => ~Integrated
  /\ req \in {"shutdown", "reload"} => backend \in {"up", "off"} /\ (backend = "up" => client)
  /\ req = "restart" => Busy = {} /\ backend \in {"stopping", "off"}
  /\ locked /\ req = "none" => /\ Busy = {}
                               /\ backend = "up" => ~client
                               /\ Integrated => backend \notin {"stopping", "saved"}

\* One waitForBackend, and where it stands.
Awaited ==
  /\ locked /\ req = "none" => (waiters = 1 /\ dialing = 0) \/ (waiters = 0 /\ dialing = 1)
  /\ announced => waiters = 1
  /\ announced \/ dialing = 1 => backend \in {"up", "off"}

\* An integrated frontend never draws a uuid; a drawn one is new.
UuidsOK ==
  /\ Integrated => fuuid = 0 /\ (backend = "stopping" => buuid = 0)
  /\ fuuid <= uuids /\ disk.uuid <= uuids
  /\ req \in {"shutdown", "reload"} => uuids < MaxRestarts
  /\ backend = "starting" => buuid \in {0, disk.uuid}
  /\ ~Integrated /\ backend \in {"stopping", "saved"} =>
       buuid = fuuid /\ fuuid # 0 /\ disk.uuid # fuuid

\* The connections a backend at rest must have sessions for.
Established == {c \in entry : hc[c] \in {"reading", "forward", "packet", "ending"}}

EntriesOK ==
  /\ \A c \in entry : hc[c] \in {"new", "failed", "reading", "forward", "packet", "ending"}
  /\ \A c \in Conns : hc[c] = "new" => c \in entry
  /\ \A c \in joined : hc[c] \notin {"none", "accepted", "new", "failed"}

\* A connection that may have left a logged-out session: one that lasts, or is over.
Seen(c) == c \in Established \/ hc[c] \in {"close", "done"}

\* What the tables and the state directory hold, where it matters.
TablesOK ==
  backend \in {"verified", "up", "stopping", "saved"} /\ trusted =>
    /\ \A c \in fresh \cup (online \cap Announced) : c \in Established \/ hc[c] = "close"
    /\ \A c \in stale : Seen(c)

DiskGood ==
  /\ disk.online \cap Announced \subseteq Established
  /\ \A c \in disk.stale : Seen(c)

DiskOK ==
  /\ Loadable /\ disk.uuid = fuuid => DiskGood
  /\ backend = "saved" /\ disk.complete => DiskGood

\* The other direction, for a split frontend: nobody who had a session is forgotten.
Remembered == Established \cap joined

NobodyForgotten ==
  ~Integrated =>
    /\ fuuid = 0 /\ locked /\ req = "none" => entry = {}
    /\ backend \in {"verified", "up", "stopping", "saved"} /\ trusted => Remembered \subseteq online
    /\ Loadable /\ disk.uuid = fuuid => Remembered \subseteq disk.online
    /\ backend = "saved" /\ disk.complete => Remembered \subseteq disk.online

IInv ==
  /\ TypeOK
  /\ Locking
  /\ Awaited
  /\ UuidsOK
  /\ EntriesOK
  /\ TablesOK
  /\ DiskOK
  /\ NobodyForgotten

-----------------------------------------------------------------------------
(* The initial state and one lemma per action. *)

LEMMA InitIInv == Init => IInv
  <1> SUFFICES ASSUME Init PROVE IInv
    OBVIOUS
  <1> USE FrontendAssumption DEF Init, FirstBackend
  <1>1. TypeOK
    <2>1. disk \in [online : SUBSET Conns, stale : SUBSET Conns, uuid : Uuids, complete : BOOLEAN]
      BY DEF Uuids
    <2>2. backend \in BackendStates /\ fuuid \in Uuids /\ buuid \in Uuids /\ uuids \in Uuids
      BY DEF BackendStates, Uuids
    <2>3. /\ sock \in [Conns -> {"unused", "open", "shut"}]
          /\ hc \in [Conns -> Positions]
      BY DEF Positions
    <2>4. locked \in BOOLEAN /\ client \in BOOLEAN /\ trusted \in BOOLEAN /\ announced \in BOOLEAN
      OBVIOUS
    <2>5. waiters \in 0 .. 2 /\ dialing \in 0 .. 2
      OBVIOUS
    <2>6. /\ deployment \in Deployments /\ entry \subseteq Conns /\ callback \subseteq Conns
          /\ fresh \subseteq Conns /\ online \subseteq Conns /\ stale \subseteq Conns
          /\ joined \subseteq Conns
      OBVIOUS
    <2>7. req \in {"none", "shutdown", "reload", "restart"} /\ fe \in {"up", "dead"}
      OBVIOUS
    <2> HIDE DEF Init, FirstBackend
    <2> QED
      BY <2>1, <2>2, <2>3, <2>4, <2>5, <2>6, <2>7 DEF TypeOK
  <1>2. Locking
    BY DEF Locking, Busy, InFlight
  <1>3. UuidsOK /\ Awaited /\ EntriesOK /\ TablesOK /\ DiskOK /\ NobodyForgotten
    BY DEF UuidsOK, Awaited, EntriesOK, TablesOK, Announced, Server, Seen, Established, TypeOK, DiskOK, DiskGood, Loadable, NobodyForgotten, Remembered
  <1> QED
    BY <1>1, <1>2, <1>3 DEF IInv

LEMMA AcceptStep ==
  ASSUME Deployed, IInv, NEW c \in Conns, Accept(c)
  PROVE  IInv'
  <1> USE FrontendAssumption DEF Deployed, feVars, waitVars, tables, beVars, connVars, Accept, Goto
  <1>0. Integrated' = Integrated /\ deployment' = deployment
    BY DEF Integrated
  <1>1. TypeOK'
    BY DEF IInv, TypeOK, Positions, BackendStates, Uuids, Locking
  <1>2. Locking'
    BY <1>0 DEF IInv, TypeOK, Locking, UuidsOK, Busy, InFlight
  <1>8. Awaited'
    BY <1>0 DEF IInv, TypeOK, Locking, Awaited
  <1>3. UuidsOK'
    BY <1>0 DEF IInv, TypeOK, Locking, UuidsOK, Uuids
  <1>4. EntriesOK'
    BY DEF IInv, TypeOK, Locking, EntriesOK, Busy, InFlight
  <1>5. TablesOK'
    BY DEF IInv, TablesOK, Announced, Server, Seen, Established, TypeOK
  <1>6. DiskOK'
    BY DEF IInv, DiskOK, DiskGood, Announced, Server, Seen, Loadable, Established
  <1>7. NobodyForgotten'
    BY <1>0 DEF IInv, NobodyForgotten, Remembered, Loadable, Established
  <1> QED
    BY <1>1, <1>2, <1>3, <1>4, <1>5, <1>6, <1>7, <1>8 DEF IInv

LEMMA PeerCloseStep ==
  ASSUME Deployed, IInv, NEW c \in Conns, PeerClose(c)
  PROVE  IInv'
  <1> USE FrontendAssumption DEF Deployed, feVars, waitVars, tables, beVars, connVars, PeerClose, Goto
  <1>0. Integrated' = Integrated /\ deployment' = deployment
    BY DEF Integrated
  <1>1. TypeOK'
    BY DEF IInv, TypeOK, Positions, BackendStates, Uuids, Locking
  <1>2. Locking'
    BY <1>0 DEF IInv, TypeOK, Locking, UuidsOK, Busy, InFlight
  <1>8. Awaited'
    BY <1>0 DEF IInv, TypeOK, Locking, Awaited
  <1>3. UuidsOK'
    BY <1>0 DEF IInv, TypeOK, Locking, UuidsOK, Uuids
  <1>4. EntriesOK'
    BY DEF IInv, TypeOK, Locking, EntriesOK, Busy, InFlight
  <1>5. TablesOK'
    BY DEF IInv, TablesOK, Announced, Server, Seen, Established, TypeOK
  <1>6. DiskOK'
    BY DEF IInv, DiskOK, DiskGood, Announced, Server, Seen, Loadable, Established
  <1>7. NobodyForgotten'
    BY <1>0 DEF IInv, NobodyForgotten, Remembered, Loadable, Established
  <1> QED
    BY <1>1, <1>2, <1>3, <1>4, <1>5, <1>6, <1>7, <1>8 DEF IInv

LEMMA ReadStep ==
  ASSUME Deployed, IInv, NEW c \in Conns, Read(c)
  PROVE  IInv'
  <1> USE FrontendAssumption DEF Deployed, feVars, waitVars, tables, beVars, connVars, Read, Goto
  <1>0. Integrated' = Integrated /\ deployment' = deployment
    BY DEF Integrated
  <1>1. TypeOK'
    BY DEF IInv, TypeOK, Positions, BackendStates, Uuids, Locking
  <1>2. Locking'
    BY <1>0 DEF IInv, TypeOK, Locking, UuidsOK, Busy, InFlight
  <1>8. Awaited'
    BY <1>0 DEF IInv, TypeOK, Locking, Awaited
  <1>3. UuidsOK'
    BY <1>0 DEF IInv, TypeOK, Locking, UuidsOK, Uuids
  <1>4. EntriesOK'
    BY DEF IInv, TypeOK, Locking, EntriesOK, Busy, InFlight
  <1>5. TablesOK'
    BY DEF IInv, TypeOK, TablesOK, Announced, Server, Seen, Established
  <1>6. DiskOK'
    BY DEF IInv, TypeOK, DiskOK, DiskGood, Announced, Server, Seen, Loadable, Established
  <1>7. NobodyForgotten'
    BY <1>0 DEF IInv, TypeOK, NobodyForgotten, Remembered, Loadable, Established
  <1> QED
    BY <1>1, <1>2, <1>3, <1>4, <1>5, <1>6, <1>7, <1>8 DEF IInv

LEMMA BeginCallStep ==
  ASSUME Deployed, IInv, NEW c \in Conns, BeginCall(c)
  PROVE  IInv'
  <1> USE FrontendAssumption DEF Deployed, feVars, waitVars, tables, beVars, connVars, BeginCall, Finish, Goto
  <1>0. Integrated' = Integrated /\ deployment' = deployment
    BY DEF Integrated
  <1>1. TypeOK'
    BY DEF IInv, TypeOK, Positions, BackendStates, Uuids, Locking
  <1>2. Locking'
    BY <1>0 DEF IInv, TypeOK, Locking, UuidsOK, Busy, InFlight
  <1>8. Awaited'
    BY <1>0 DEF IInv, TypeOK, Locking, Awaited
  <1>3. UuidsOK'
    BY <1>0 DEF IInv, TypeOK, Locking, UuidsOK, Uuids
  <1>4. EntriesOK'
    BY DEF IInv, TypeOK, Locking, EntriesOK, Busy, InFlight
  <1>5. TablesOK'
    BY DEF IInv, TypeOK, TablesOK, Announced, Server, Seen, Established
  <1>6. DiskOK'
    BY DEF IInv, Locking, DiskOK, DiskGood, Announced, Server, Seen, Loadable
  <1>7. NobodyForgotten'
    BY <1>0 DEF IInv, TypeOK, NobodyForgotten, Remembered, Loadable, Established
  <1> QED
    BY <1>1, <1>2, <1>3, <1>4, <1>5, <1>6, <1>7, <1>8 DEF IInv

\* What a handler does to the tables concerns its own connection.
LEMMA GreetKeeps ==
  ASSUME TypeOK, NEW c \in Conns, Greet(c)
  PROVE  /\ sock' \in [Conns -> {"unused", "open", "shut"}]
         /\ fresh' \in {fresh, fresh \cup {c}, fresh \ {c}}
         /\ online' \in {online, online \cup {c}}
         /\ joined' \in {joined, joined \cup {c}}
         /\ stale' = stale
         /\ c \in joined' \ joined => c \in online'
  BY DEF TypeOK, Greet, Join, Refuse, tables

LEMMA HandlePacketKeeps ==
  ASSUME TypeOK, NEW c \in Conns, HandlePacket(c)
  PROVE  /\ sock' \in [Conns -> {"unused", "open", "shut"}]
         /\ fresh' \in {fresh, fresh \ {c}}
         /\ online' \in {online, online \cup {c}, online \ {c}}
         /\ joined' \in {joined, joined \cup {c}, joined \ {c}}
         /\ stale' \in {stale, stale \cup {c}}
         /\ c \in joined' \ joined => c \in online'
         /\ c \in online \ online' => joined' = joined \ {c}
         /\ c \in online' \ online => c \in fresh \cup stale \/ Server[c] = "serverbrowser"
         /\ c \in stale' \ stale => c \in online /\ Server[c] = "gpcm"
  BY DEF TypeOK, HandlePacket, Join, Logout, Refuse, tables

LEMMA EndCallStep ==
  ASSUME Deployed, IInv, NEW c \in Conns, EndCall(c)
  PROVE  IInv'
  <1> USE FrontendAssumption DEF feVars, waitVars
  <1>0. /\ Integrated' = Integrated /\ deployment' = deployment
        /\ UNCHANGED <<entry, callback, client, uuids, feVars, backend, buuid, trusted, disk>>
    BY DEF EndCall, Integrated
  <1>a. /\ client
        /\ hc[c] \in {"new", "packet", "close"}
        /\ hc' = [hc EXCEPT ![c] = IF hc[c] = "close" THEN "done" ELSE "reading"]
    BY DEF EndCall, Serving, Finish, Goto
  <1>b. /\ sock' \in [Conns -> {"unused", "open", "shut"}]
        /\ fresh' \subseteq Conns /\ online' \subseteq Conns /\ stale' \subseteq Conns
        /\ joined' \subseteq Conns
    <2> TypeOK
      BY DEF IInv
    <2>1. CASE Greet(c)
      BY <2>1, GreetKeeps DEF TypeOK
    <2>2. CASE HandlePacket(c)
      BY <2>2, HandlePacketKeeps DEF TypeOK
    <2>3. CASE Forget(c) /\ Finish(c)
      BY <2>3 DEF TypeOK, Forget, Finish
    <2> QED
      BY <2>1, <2>2, <2>3 DEF EndCall
  <1>1. TypeOK'
    BY <1>0, <1>a, <1>b DEF IInv, TypeOK, Positions, BackendStates, Uuids
  <1>c. c \in Busy /\ backend = "up" /\ ~(locked /\ req = "none")
    BY <1>a DEF IInv, TypeOK, Locking, Busy, InFlight
  <1>d. Busy' \subseteq Busy
    BY <1>a DEF IInv, TypeOK, Busy, InFlight
  <1>2. Locking'
    BY <1>0, <1>c, <1>d DEF IInv, TypeOK, Locking
  <1>8. Awaited'
    BY <1>0 DEF IInv, TypeOK, Locking, Awaited
  <1>3. UuidsOK'
    BY <1>0 DEF IInv, TypeOK, Locking, UuidsOK, Uuids
  <1>e. /\ \A d \in Conns : d # c => hc'[d] = hc[d]
        /\ hc'[c] = IF hc[c] = "close" THEN "done" ELSE "reading"
    BY <1>a DEF IInv, TypeOK
  <1>4. EntriesOK'
    <2>1. \A d \in joined' : d # c => d \in joined
      <3> TypeOK
        BY DEF IInv
      <3> QED
        BY GreetKeeps, HandlePacketKeeps DEF EndCall, Forget
    <2> QED
      BY <1>0, <1>a, <1>b, <1>e, <2>1 DEF IInv, TypeOK, EntriesOK
  <1>f. Established' = IF hc[c] = "new" THEN Established \cup {c} ELSE Established
    BY <1>0, <1>a, <1>e DEF IInv, TypeOK, EntriesOK, Established
  <1>5. TablesOK'
    <2> SUFFICES ASSUME trusted
                 PROVE  /\ \A d \in fresh' \cup (online' \cap Announced') : d \in Established' \/ hc'[d] = "close"
                        /\ \A d \in stale' : d \in Established' \/ hc'[d] \in {"close", "done"}
      BY <1>0 DEF TablesOK, Seen
    <2>1. Announced' = Announced
      BY <1>0 DEF Announced, Server
    <2>2. /\ \A d \in fresh \cup (online \cap Announced) : d \in Established \/ hc[d] = "close"
          /\ \A d \in stale : d \in Established \/ hc[d] \in {"close", "done"}
      BY <1>c DEF IInv, TablesOK, Seen
    <2>3. CASE hc[c] = "new" /\ Greet(c)
      <3> TypeOK
        BY DEF IInv
      <3> QED
        BY <1>e, <1>f, <2>1, <2>2, <2>3, GreetKeeps DEF TypeOK
    <2>4. CASE hc[c] = "packet" /\ HandlePacket(c)
      <3> TypeOK
        BY DEF IInv
      <3>1. c \in Announced => Server[c] # "serverbrowser"
        BY DEF Announced
      <3>2. Server[c] = "gpcm" => c \in Announced
        BY DEF Announced
      <3> QED
        BY <1>e, <1>f, <2>1, <2>2, <2>4, <3>1, <3>2, HandlePacketKeeps DEF TypeOK
    <2>5. CASE hc[c] = "close" /\ Forget(c)
      <3> TypeOK
        BY DEF IInv
      <3>1. \A d \in fresh' \cup (online' \cap Announced) : d # c /\ d \in fresh \cup (online \cap Announced)
        BY <2>5 DEF Forget
      <3>2. stale' = stale
        BY <2>5 DEF Forget
      <3>3. Established' = Established
        BY <1>f, <2>5
      <3>4. fresh' \cup (online' \cap Announced) \subseteq Conns /\ stale \subseteq Conns
        BY <1>b DEF TypeOK
      <3>5. \A d \in fresh' \cup (online' \cap Announced) : d \in Established' \/ hc'[d] = "close"
        BY <1>e, <2>2, <3>1, <3>3, <3>4
      <3>6. \A d \in stale' : d \in Established' \/ hc'[d] \in {"close", "done"}
        BY <1>e, <2>2, <2>5, <3>2, <3>3, <3>4
      <3> QED
        BY <2>1, <3>5, <3>6
    <2> QED
      BY <2>3, <2>4, <2>5 DEF EndCall
  <1>6. DiskOK'
    BY <1>0, <1>c DEF DiskOK, Loadable
  <1>7. NobodyForgotten'
    <2>1. ~Integrated /\ trusted => Established \cap joined \subseteq online
      BY <1>c DEF IInv, NobodyForgotten, Remembered
    <2>2. ~Integrated /\ trusted => Established' \cap joined' \subseteq online'
      <3> TypeOK
        BY DEF IInv
      <3>1. CASE hc[c] = "new" /\ Greet(c)
        <4>1. c \notin joined
          BY <3>1 DEF IInv, EntriesOK
        <4> QED
          BY <1>f, <2>1, <3>1, <4>1, GreetKeeps
      <3>2. CASE hc[c] = "packet" /\ HandlePacket(c)
        BY <1>f, <2>1, <3>2, HandlePacketKeeps
      <3>3. CASE hc[c] = "close" /\ Forget(c)
        BY <1>f, <2>1, <3>3 DEF Forget
      <3> QED
        BY <3>1, <3>2, <3>3 DEF EndCall
    <2> QED
      BY <1>0, <1>c, <2>2 DEF NobodyForgotten, Remembered, Loadable
  <1> QED
    BY <1>1, <1>2, <1>3, <1>4, <1>5, <1>6, <1>7, <1>8 DEF IInv

LEMMA CallFailsStep ==
  ASSUME Deployed, IInv, NEW c \in Conns, CallFails(c)
  PROVE  IInv'
  <1> USE FrontendAssumption DEF Deployed, feVars, waitVars, tables, beVars, connVars, CallFails, Finish, Goto
  <1>0. Integrated' = Integrated /\ deployment' = deployment
    BY DEF Integrated
  <1>1. TypeOK'
    BY DEF IInv, TypeOK, Positions, BackendStates, Uuids, Locking
  <1>2. Locking'
    BY <1>0 DEF IInv, TypeOK, Locking, UuidsOK, Busy, InFlight
  <1>8. Awaited'
    BY <1>0 DEF IInv, TypeOK, Locking, Awaited
  <1>3. UuidsOK'
    BY <1>0 DEF IInv, TypeOK, Locking, UuidsOK, Uuids
  <1>4. EntriesOK'
    BY DEF IInv, TypeOK, Locking, EntriesOK, Busy, InFlight
  <1>5. TablesOK'
    BY DEF IInv, TypeOK, Locking, TablesOK, Announced, Server, Seen, Established, Busy, InFlight
  <1>6. DiskOK'
    BY DEF IInv, TypeOK, DiskOK, DiskGood, Announced, Server, Seen, Loadable, Established
  <1>7. NobodyForgotten'
    BY <1>0 DEF IInv, TypeOK, NobodyForgotten, Remembered, Loadable, Established
  <1> QED
    BY <1>1, <1>2, <1>3, <1>4, <1>5, <1>6, <1>7, <1>8 DEF IInv

LEMMA CallFrontendStep ==
  ASSUME Deployed, IInv, NEW c \in Conns, CallFrontend(c)
  PROVE  IInv'
  <1> USE FrontendAssumption DEF Deployed, feVars, waitVars, tables, beVars, connVars, CallFrontend, Goto
  <1>0. Integrated' = Integrated /\ deployment' = deployment
    BY DEF Integrated
  <1>1. TypeOK'
    BY DEF IInv, TypeOK, Positions, BackendStates, Uuids, Locking
  <1>2. Locking'
    BY <1>0 DEF IInv, TypeOK, Locking, UuidsOK, Busy, InFlight
  <1>8. Awaited'
    BY <1>0 DEF IInv, TypeOK, Locking, Awaited
  <1>3. UuidsOK'
    BY <1>0 DEF IInv, TypeOK, Locking, UuidsOK, Uuids
  <1>4. EntriesOK'
    BY DEF IInv, TypeOK, Locking, EntriesOK, Busy, InFlight
  <1>5. TablesOK'
    BY DEF IInv, TablesOK, Announced, Server, Seen, Established, TypeOK
  <1>6. DiskOK'
    BY DEF IInv, DiskOK, DiskGood, Announced, Server, Seen, Loadable, Established
  <1>7. NobodyForgotten'
    BY <1>0 DEF IInv, NobodyForgotten, Remembered, Loadable, Established
  <1> QED
    BY <1>1, <1>2, <1>3, <1>4, <1>5, <1>6, <1>7, <1>8 DEF IInv

LEMMA FrontendServesStep ==
  ASSUME Deployed, IInv, NEW c \in Conns, FrontendServes(c)
  PROVE  IInv'
  <1> USE FrontendAssumption DEF Deployed, feVars, waitVars, tables, beVars, connVars, FrontendServes, Goto
  <1>0. Integrated' = Integrated /\ deployment' = deployment
    BY DEF Integrated
  <1>1. TypeOK'
    BY DEF IInv, TypeOK, Positions, BackendStates, Uuids, Locking
  <1>2. Locking'
    BY <1>0 DEF IInv, TypeOK, Locking, UuidsOK, Busy, InFlight
  <1>8. Awaited'
    BY <1>0 DEF IInv, TypeOK, Locking, Awaited
  <1>3. UuidsOK'
    BY <1>0 DEF IInv, TypeOK, Locking, UuidsOK, Uuids
  <1>4. EntriesOK'
    BY DEF IInv, TypeOK, Locking, EntriesOK, Busy, InFlight
  <1>5. TablesOK'
    BY DEF IInv, TablesOK, Announced, Server, Seen, Established, TypeOK
  <1>6. DiskOK'
    BY DEF IInv, DiskOK, DiskGood, Announced, Server, Seen, Loadable, Established
  <1>7. NobodyForgotten'
    BY <1>0 DEF IInv, NobodyForgotten, Remembered, Loadable, Established
  <1> QED
    BY <1>1, <1>2, <1>3, <1>4, <1>5, <1>6, <1>7, <1>8 DEF IInv

LEMMA ShutdownBackendStep ==
  ASSUME Deployed, IInv, NEW who \in {"shutdown", "reload"}, ShutdownBackend(who)
  PROVE  IInv'
  <1> USE FrontendAssumption DEF Deployed, feVars, waitVars, tables, beVars, connVars, ShutdownBackend, Goto
  <1>0. Integrated' = Integrated /\ deployment' = deployment
    BY DEF Integrated
  <1>a. Reloads => Integrated
    BY DEF IInv, TypeOK, Integrated, Reloads
  <1>1. TypeOK'
    BY DEF IInv, TypeOK, Positions, BackendStates, Uuids, Locking
  <1>2. Locking'
    BY <1>0, <1>a DEF IInv, TypeOK, Locking, UuidsOK, Busy, InFlight
  <1>8. Awaited'
    BY <1>0 DEF IInv, TypeOK, Locking, Awaited
  <1>3. UuidsOK'
    BY <1>0 DEF IInv, TypeOK, Locking, UuidsOK, Uuids
  <1>4. EntriesOK'
    BY DEF IInv, TypeOK, Locking, EntriesOK, Busy, InFlight
  <1>5. TablesOK'
    BY DEF IInv, TablesOK, Announced, Server, Seen, Established, TypeOK
  <1>6. DiskOK'
    BY DEF IInv, DiskOK, DiskGood, Announced, Server, Seen, Loadable, Established
  <1>7. NobodyForgotten'
    <2>1. Established' = Established
      BY DEF Established
    <2>2. ~Loadable'
      BY DEF Loadable
    <2>3. ~Integrated' => (fuuid' = 0 /\ locked' /\ req' = "none" => entry' = {})
      OBVIOUS
    <2>4. ~Integrated /\ backend \in {"verified", "up", "stopping", "saved"} /\ trusted =>
            Remembered \subseteq online
      BY DEF IInv, NobodyForgotten
    <2>5. ~Integrated /\ backend = "saved" /\ disk.complete => Remembered \subseteq disk.online
      BY DEF IInv, NobodyForgotten
    <2>6. Remembered' = Remembered
      BY <2>1 DEF Remembered
    <2> QED
      BY <1>0, <2>2, <2>3, <2>4, <2>5, <2>6 DEF NobodyForgotten
  <1> QED
    BY <1>1, <1>2, <1>3, <1>4, <1>5, <1>6, <1>7, <1>8 DEF IInv

LEMMA GrantedStep ==
  ASSUME Deployed, IInv, Granted
  PROVE  IInv'
  <1> USE FrontendAssumption DEF Deployed, feVars, waitVars, tables, beVars, connVars, Granted, Goto
  <1>0. Integrated' = Integrated /\ deployment' = deployment
    BY DEF Integrated
  <1>1. TypeOK'
    <2>1. uuids + 1 \in Uuids /\ waiters = 0
      BY DEF IInv, TypeOK, Uuids, UuidsOK, Locking
    <2> QED
      BY <2>1 DEF IInv, TypeOK, BackendStates, Uuids
  <1>2. Locking'
    <2>1. CASE Integrated
      BY <1>0, <2>1 DEF IInv, TypeOK, Locking, Busy, InFlight
    <2>2. CASE ~Integrated
      BY <1>0, <2>2 DEF IInv, TypeOK, Locking, Busy, InFlight
    <2> QED
      BY <2>1, <2>2
  <1>8. Awaited'
    BY <1>0 DEF IInv, TypeOK, Locking, Awaited
  <1>3. UuidsOK'
    BY <1>0 DEF IInv, TypeOK, Locking, UuidsOK, Uuids
  <1>4. EntriesOK'
    BY DEF IInv, TypeOK, Locking, EntriesOK, Busy, InFlight
  <1>5. TablesOK'
    BY DEF IInv, TablesOK, Announced, Server, Seen, Established, TypeOK
  <1>6. DiskOK'
    <2>1. Established' = Established
      BY DEF IInv, TypeOK, Established
    <2> QED
      BY <2>1 DEF IInv, TypeOK, Uuids, Locking, UuidsOK, DiskOK, DiskGood, Announced, Server, Seen, Loadable
  <1>7. NobodyForgotten'
    <2>1. Established' = Established
      BY DEF IInv, TypeOK, Established
    <2> QED
      BY <1>0, <2>1 DEF IInv, TypeOK, Uuids, Locking, UuidsOK, NobodyForgotten, Remembered, Loadable
  <1> QED
    BY <1>1, <1>2, <1>3, <1>4, <1>5, <1>6, <1>7, <1>8 DEF IInv

\* What a save leaves in the state directory.
LEMMA SavedDisk ==
  ASSUME IInv, Save, buuid # 0
  PROVE  /\ disk' \in [online : SUBSET Conns, stale : SUBSET Conns, uuid : Uuids, complete : BOOLEAN]
         /\ disk'.uuid = disk.uuid
         /\ disk'.complete => trusted /\ disk'.online = online /\ disk'.stale = stale
  <1>1. /\ disk \in [online : SUBSET Conns, stale : SUBSET Conns, uuid : Uuids, complete : BOOLEAN]
        /\ online \in SUBSET Conns /\ stale \in SUBSET Conns /\ trusted \in BOOLEAN
    BY DEF IInv, TypeOK
  <1>2. CASE disk' = [disk EXCEPT !.online = online, !.stale = stale, !.complete = trusted]
    BY <1>1, <1>2
  <1>3. CASE disk' = [disk EXCEPT !.complete = FALSE, !.online =
                        {c \in Conns : c \in IF Server[c] = "gpcm" THEN @ ELSE online}]
    BY <1>1, <1>3
  <1> QED
    BY <1>2, <1>3 DEF Save

LEMMA SaveStep ==
  ASSUME Deployed, IInv, Save
  PROVE  IInv'
  <1> USE FrontendAssumption DEF feVars, waitVars, connVars
  <1>0. /\ Integrated' = Integrated /\ deployment' = deployment /\ backend = "stopping"
        /\ UNCHANGED <<connVars, uuids, feVars, buuid, joined>>
    BY DEF Save, Integrated
  <1>a. \/ buuid = 0 /\ backend' = "off" /\ client' = FALSE /\ EmptyTables /\ disk' = disk
        \/ buuid # 0 /\ backend' = "saved" /\ UNCHANGED <<client, tables, trusted>>
    BY DEF Save
  <1>1. TypeOK'
    <2>1. CASE buuid = 0
      BY <1>0, <1>a, <2>1 DEF IInv, TypeOK, BackendStates, EmptyTables
    <2>2. CASE buuid # 0
      BY <1>0, <1>a, <2>2, SavedDisk DEF IInv, TypeOK, BackendStates, tables
    <2> QED
      BY <2>1, <2>2
  <1>b. Busy' = Busy
    BY <1>0 DEF Busy
  <1>2. Locking'
    <2>1. locked /\ (req = "none" \/ req = "restart") /\ (req = "none" => ~Integrated)
      BY <1>0 DEF IInv, TypeOK, Locking
    <2>2. buuid # 0 => ~Integrated /\ req = "none"
      BY <1>0, <2>1 DEF IInv, UuidsOK, Locking
    <2> QED
      BY <1>0, <1>a, <1>b, <2>1, <2>2 DEF IInv, Locking
  <1>8. Awaited'
    BY <1>0, <1>a DEF IInv, TypeOK, Awaited
  <1>3. UuidsOK'
    <2>1. disk'.uuid = disk.uuid
      BY <1>a, SavedDisk
    <2> QED
      BY <1>0, <1>a, <2>1 DEF IInv, TypeOK, UuidsOK
  <1>4. EntriesOK'
    BY <1>0 DEF IInv, EntriesOK
  <1>c. /\ Established' = Established /\ Announced' = Announced
        /\ \A c \in Conns : hc[c] # "close"
    BY <1>0 DEF IInv, TypeOK, Locking, Busy, InFlight, Established, Announced, Server
  <1>5. TablesOK'
    BY <1>0, <1>a, <1>c DEF IInv, TablesOK, Seen, tables
  <1>d. ~(Loadable' /\ disk'.uuid = fuuid')
    <2>1. CASE Integrated
      BY <1>0, <2>1 DEF IInv, UuidsOK, Loadable
    <2>2. CASE ~Integrated
      BY <1>0, <1>a, <2>2, SavedDisk DEF IInv, UuidsOK
    <2> QED
      BY <2>1, <2>2
  <1>6. DiskOK'
    <2> SUFFICES ASSUME backend' = "saved", disk'.complete PROVE DiskGood'
      BY <1>d DEF DiskOK
    <2>1. trusted /\ disk'.online = online /\ disk'.stale = stale
      BY <1>a, SavedDisk
    <2>2. /\ \A c \in online \cap Announced : c \in Established
          /\ \A c \in stale : c \in Established \/ hc[c] \in {"close", "done"}
      BY <1>0, <1>c, <2>1 DEF IInv, TypeOK, TablesOK, Seen
    <2> QED
      BY <1>0, <1>c, <2>1, <2>2 DEF DiskGood, Seen
  <1>7. NobodyForgotten'
    <2>1. Remembered' = Remembered
      BY <1>0, <1>c DEF Remembered
    <2>2. ~Integrated /\ trusted => Remembered \subseteq online
      BY <1>0 DEF IInv, NobodyForgotten
    <2>3. ~Integrated /\ backend' = "saved" /\ disk'.complete => Remembered \subseteq disk'.online
      BY <1>a, <2>2, SavedDisk
    <2>4. ~Integrated => (fuuid' = 0 /\ locked' /\ req' = "none" => entry' = {})
      BY <1>0 DEF IInv, NobodyForgotten
    <2> QED
      BY <1>0, <1>a, <1>d, <2>1, <2>2, <2>3, <2>4 DEF NobodyForgotten, tables
  <1> QED
    BY <1>1, <1>2, <1>3, <1>4, <1>5, <1>6, <1>7, <1>8 DEF IInv

LEMMA WriteUuidStep ==
  ASSUME Deployed, IInv, WriteUuid
  PROVE  IInv'
  <1> USE FrontendAssumption DEF Deployed, feVars, waitVars, tables, beVars, connVars, WriteUuid, EmptyTables, Goto
  <1>0. Integrated' = Integrated /\ deployment' = deployment
    BY DEF Integrated
  <1>1. TypeOK'
    BY DEF IInv, TypeOK, Positions, BackendStates, Uuids, Locking
  <1>2. Locking'
    BY DEF IInv, TypeOK, Locking, UuidsOK, Busy, InFlight
  <1>8. Awaited'
    BY <1>0 DEF IInv, TypeOK, Locking, Awaited
  <1>3. UuidsOK'
    BY <1>0 DEF IInv, TypeOK, Locking, UuidsOK, Uuids
  <1>4. EntriesOK'
    BY DEF IInv, TypeOK, Locking, EntriesOK, Busy, InFlight
  <1>5. TablesOK'
    BY DEF TablesOK, Announced, Server, Seen, Established, TypeOK
  <1>6. DiskOK'
    BY DEF IInv, DiskOK, DiskGood, Announced, Server, Seen, Loadable, Established
  <1>7. NobodyForgotten'
    BY <1>0 DEF IInv, NobodyForgotten, Remembered, Loadable, Established
  <1> QED
    BY <1>1, <1>2, <1>3, <1>4, <1>5, <1>6, <1>7, <1>8 DEF IInv

LEMMA CrashStep ==
  ASSUME Deployed, IInv, Crash
  PROVE  IInv'
  <1> USE FrontendAssumption DEF Deployed, feVars, waitVars, tables, beVars, connVars, Crash, EmptyTables, Goto
  <1>0. Integrated' = Integrated /\ deployment' = deployment
    BY DEF Integrated
  <1>1. TypeOK'
    BY DEF IInv, TypeOK, Positions, BackendStates, Uuids, Locking
  <1>2. Locking'
    BY <1>0 DEF IInv, TypeOK, Locking, UuidsOK, Busy, InFlight
  <1>8. Awaited'
    BY <1>0 DEF IInv, TypeOK, Locking, Awaited
  <1>3. UuidsOK'
    BY <1>0 DEF IInv, TypeOK, Locking, UuidsOK, Uuids
  <1>4. EntriesOK'
    BY DEF IInv, TypeOK, Locking, EntriesOK, Busy, InFlight
  <1>5. TablesOK'
    BY DEF TablesOK, Announced, Server, Seen, Established, TypeOK
  <1>a. /\ Established' = Established /\ Announced' = Announced
        /\ Loadable' = Loadable
    BY DEF Established, Announced, Server, Loadable
  <1>6. DiskOK'
    BY <1>a DEF IInv, DiskOK, DiskGood, Seen
  <1>7. NobodyForgotten'
    <2>1. Remembered' = Remembered
      BY <1>a DEF Remembered
    <2> QED
      BY <1>0, <1>a, <2>1 DEF IInv, NobodyForgotten
  <1> QED
    BY <1>1, <1>2, <1>3, <1>4, <1>5, <1>6, <1>7, <1>8 DEF IInv

LEMMA StartBackendStep ==
  ASSUME Deployed, IInv, StartBackend
  PROVE  IInv'
  <1> USE FrontendAssumption DEF Deployed, feVars, waitVars, tables, beVars, connVars, StartBackend, Goto
  <1>0. Integrated' = Integrated /\ deployment' = deployment
    BY DEF Integrated
  <1>1. TypeOK'
    BY DEF IInv, TypeOK, Positions, BackendStates, Uuids, Locking
  <1>2. Locking'
    <2>1. CASE req = "restart"
      BY <2>1 DEF IInv, TypeOK, Locking, Busy
    <2>2. CASE req # "restart" /\ req = "none" /\ ~Integrated
      BY <1>0, <2>2 DEF IInv, TypeOK, Locking, Busy
    <2> QED
      BY <2>1, <2>2 DEF MayStart
  <1>8. Awaited'
    <2>1. CASE req = "restart"
      BY <2>1 DEF IInv, TypeOK, Locking, Awaited
    <2>2. CASE req = "none" /\ ~announced /\ dialing = 0
      BY <2>2 DEF IInv, TypeOK, Awaited
    <2> QED
      BY <2>1, <2>2 DEF MayStart
  <1>3. UuidsOK'
    BY <1>0 DEF IInv, TypeOK, Locking, UuidsOK, Uuids
  <1>4. EntriesOK'
    BY DEF IInv, TypeOK, Locking, EntriesOK, Busy, InFlight
  <1>5. TablesOK'
    BY DEF TablesOK, Announced, Server, Seen, Established, TypeOK
  <1>6. DiskOK'
    <2>1. Established' = Established
      BY DEF IInv, TypeOK, Established
    <2> QED
      BY <2>1 DEF IInv, TypeOK, Uuids, Locking, UuidsOK, DiskOK, DiskGood, Announced, Server, Seen, Loadable, MayStart
  <1>7. NobodyForgotten'
    <2>1. Established' = Established
      BY DEF IInv, TypeOK, Established
    <2> QED
      BY <1>0, <2>1 DEF IInv, Locking, NobodyForgotten, Remembered, Loadable, MayStart
  <1> QED
    BY <1>1, <1>2, <1>3, <1>4, <1>5, <1>6, <1>7, <1>8 DEF IInv

\* The three ends of VerifyState: the process exits, starts anew, or goes on.
Exits == /\ backend' = "off" /\ client' = FALSE /\ EmptyTables /\ UNCHANGED <<sock, entry>>
         /\ ~locked \/ ~disk.complete

StartsAnew ==
  /\ locked /\ buuid # fuuid /\ backend' = "verified" /\ EmptyTables /\ entry' = {} /\ client' = client
  /\ sock' = [c \in Conns |-> IF c \in entry THEN "shut" ELSE sock[c]]

GoesOn ==
  /\ locked /\ buuid = fuuid /\ backend' = "verified" /\ UNCHANGED <<sock, entry, client>>
  /\ \/ buuid # 0 /\ LoadState
     \/ buuid = 0 /\ EmptyTables

LEMMA VerifyStateEnds ==
  ASSUME VerifyState
  PROVE  Exits \/ StartsAnew \/ GoesOn
  BY DEF VerifyState, Exits, StartsAnew, GoesOn

LEMMA VerifyStateStep ==
  ASSUME Deployed, IInv, VerifyState
  PROVE  IInv'
  <1> USE FrontendAssumption DEF feVars, waitVars
  <1>0. /\ Integrated' = Integrated /\ deployment' = deployment /\ backend = "starting"
        /\ UNCHANGED <<hc, callback, feVars, buuid, joined, disk, uuids>>
    BY DEF VerifyState, Integrated
  <1>a. Exits \/ StartsAnew \/ GoesOn
    BY VerifyStateEnds
  <1>1. TypeOK'
    <2>1. fresh' \subseteq Conns /\ online' \subseteq Conns /\ stale' \subseteq Conns /\ trusted' \in BOOLEAN
      BY <1>a DEF IInv, TypeOK, Exits, StartsAnew, GoesOn, EmptyTables, LoadState
    <2>2. sock' \in [Conns -> {"unused", "open", "shut"}] /\ entry' \subseteq Conns
      BY <1>a DEF IInv, TypeOK, Exits, StartsAnew, GoesOn
    <2>3. backend' \in BackendStates /\ client' \in BOOLEAN
      BY <1>a DEF IInv, TypeOK, Exits, StartsAnew, GoesOn, BackendStates
    <2> QED
      BY <1>0, <2>1, <2>2, <2>3 DEF IInv, TypeOK
  <1>b. Busy' = Busy
    BY <1>0 DEF Busy
  <1>2. Locking'
    BY <1>0, <1>a, <1>b DEF IInv, TypeOK, Locking, Exits, StartsAnew, GoesOn
  <1>8. Awaited'
    BY <1>0, <1>a DEF IInv, TypeOK, Awaited, Exits, StartsAnew, GoesOn
  <1>3. UuidsOK'
    BY <1>0, <1>a DEF IInv, TypeOK, UuidsOK, Exits, StartsAnew, GoesOn
  <1>c. locked => req = "none" /\ Busy = {}
    BY <1>0 DEF IInv, TypeOK, Locking
  <1>4. EntriesOK'
    <2>1. locked => \A c \in Conns : hc[c] # "new"
      BY <1>c DEF Busy, InFlight
    <2>2. entry' = entry \/ (locked /\ entry' = {})
      BY <1>a DEF Exits, StartsAnew, GoesOn
    <2> QED
      BY <1>0, <2>1, <2>2 DEF IInv, EntriesOK
  <1>d. /\ Announced' = Announced
        /\ entry' = entry => Established' = Established
        /\ entry' = {} => Established' = {}
    BY <1>0 DEF Established, Announced, Server
  <1>e. StartsAnew => ~Loadable' \/ disk'.uuid # fuuid'
    BY <1>0 DEF StartsAnew, IInv, UuidsOK, Loadable
  <1>5. TablesOK'
    <2>1. CASE EmptyTables
      BY <2>1 DEF TablesOK, EmptyTables
    <2>2. CASE GoesOn /\ buuid # 0 /\ LoadState
      <3>1. Loadable <=> disk.complete
        BY <1>c, <2>2 DEF Loadable, GoesOn
      <3>2. disk.uuid = fuuid /\ Established' = Established
        BY <1>0, <1>d, <2>2 DEF IInv, UuidsOK, GoesOn
      <3>3. disk.complete => DiskGood
        BY <3>1, <3>2 DEF IInv, DiskOK
      <3> QED
        BY <1>0, <1>d, <2>2, <3>2, <3>3 DEF TablesOK, DiskGood, Seen, LoadState
    <2> QED
      BY <1>a, <2>1, <2>2 DEF Exits, StartsAnew, GoesOn
  <1>6. DiskOK'
    <2>1. CASE StartsAnew
      BY <1>e, <2>1 DEF DiskOK, StartsAnew
    <2>2. CASE Exits \/ GoesOn
      <3>1. entry' = entry /\ backend' # "saved" /\ (Loadable' <=> Loadable)
        BY <1>0, <2>2 DEF Exits, GoesOn, Loadable
      <3> QED
        BY <1>0, <1>d, <3>1 DEF IInv, DiskOK, DiskGood, Seen
    <2> QED
      BY <1>a, <2>1, <2>2
  <1>7. NobodyForgotten'
    <2>1. CASE Exits
      BY <1>0, <1>d, <2>1 DEF IInv, NobodyForgotten, Remembered, Loadable, Exits
    <2>2. CASE StartsAnew
      BY <1>0, <1>d, <2>2 DEF NobodyForgotten, Remembered, StartsAnew
    <2>3. CASE GoesOn
      <3>1. Remembered' = Remembered /\ (Loadable' <=> Loadable)
        BY <1>0, <1>d, <2>3 DEF Remembered, GoesOn, Loadable
      <3>2. ~Integrated => (fuuid' = 0 /\ locked' /\ req' = "none" => entry' = {})
        BY <1>0, <2>3 DEF IInv, NobodyForgotten, GoesOn
      <3>3. ~Integrated /\ Loadable' /\ disk'.uuid = fuuid' => Remembered' \subseteq disk'.online
        BY <1>0, <3>1 DEF IInv, NobodyForgotten
      <3>4. ~Integrated /\ trusted' => Remembered' \subseteq online'
        <4>1. CASE buuid = 0
          BY <1>0, <1>c, <2>3, <3>2, <4>1 DEF GoesOn, Remembered, Established
        <4>2. CASE buuid # 0
          <5>1. disk.uuid = fuuid /\ (Loadable <=> disk.complete)
            BY <1>0, <1>c, <2>3, <4>2 DEF IInv, UuidsOK, GoesOn, Loadable
          <5>2. online' = disk.online /\ trusted' = disk.complete
            BY <2>3, <4>2 DEF GoesOn, LoadState
          <5> QED
            BY <1>0, <3>1, <3>3, <5>1, <5>2
        <4> QED
          BY <4>1, <4>2
      <3>5. backend' = "verified"
        BY <2>3 DEF GoesOn
      <3> QED
        BY <1>0, <3>2, <3>3, <3>4, <3>5 DEF NobodyForgotten
    <2> QED
      BY <1>a, <2>1, <2>2, <2>3
  <1> QED
    BY <1>1, <1>2, <1>3, <1>4, <1>5, <1>6, <1>7, <1>8 DEF IInv

\* Ready, Hear and Connect move nothing but the gate: what is left alone.
LEMMA GateStep ==
  ASSUME IInv, backend' = backend \/ (backend = "verified" /\ backend' = "up"), Loadable' => Loadable,
         UNCHANGED <<deployment, connVars, req, fuuid, buuid, tables, joined, trusted, disk, uuids>>,
         locked' => locked
  PROVE  EntriesOK' /\ TablesOK' /\ DiskOK' /\ NobodyForgotten' /\ UuidsOK'
  <1> USE DEF connVars, tables
  <1>1. Integrated' = Integrated /\ Announced' = Announced /\ Established' = Established
    BY DEF Integrated, Announced, Server, Established
  <1>2. EntriesOK'
    BY DEF IInv, EntriesOK
  <1>3. TablesOK'
    BY <1>1 DEF IInv, TablesOK, Seen
  <1>4. DiskOK'
    BY <1>1 DEF IInv, DiskOK, DiskGood, Seen
  <1>5. NobodyForgotten'
    <2>1. Remembered' = Remembered
      BY <1>1 DEF Remembered
    <2> QED
      BY <1>1, <2>1 DEF IInv, NobodyForgotten
  <1>6. UuidsOK'
    BY <1>1 DEF IInv, UuidsOK
  <1> QED
    BY <1>2, <1>3, <1>4, <1>5, <1>6

LEMMA ReadyStep ==
  ASSUME Deployed, IInv, Ready
  PROVE  IInv'
  <1> USE DEF Ready, connVars, tables
  <1>0. locked /\ req = "none" /\ ~announced /\ waiters = 1 /\ dialing = 0 /\ ~client
    BY DEF IInv, TypeOK, Locking, Awaited
  <1>1. TypeOK'
    BY <1>0 DEF IInv, TypeOK, BackendStates
  <1>2. Integrated' = Integrated /\ Busy' = Busy
    BY DEF Integrated, Busy
  <1>3. Locking'
    BY <1>0, <1>2 DEF IInv, Locking
  <1>4. Awaited'
    BY <1>0 DEF Awaited
  <1>5. EntriesOK' /\ TablesOK' /\ DiskOK' /\ NobodyForgotten' /\ UuidsOK'
    <2>1. Loadable' => Loadable
      BY DEF Loadable
    <2> QED
      BY <2>1, GateStep
  <1> QED
    BY <1>1, <1>3, <1>4, <1>5 DEF IInv

LEMMA HearStep ==
  ASSUME Deployed, IInv, Hear
  PROVE  IInv'
  <1> USE DEF Hear, connVars, beVars, tables
  <1>0. locked /\ req = "none" /\ waiters = 1 /\ dialing = 0 /\ backend \in {"up", "off"}
    BY DEF IInv, TypeOK, Locking, Awaited
  <1>1. TypeOK'
    <2>1. waiters' = 0 /\ dialing' = 1 /\ announced' = FALSE
      BY <1>0
    <2>2. UNCHANGED <<deployment, connVars, locked, req, client, fuuid, fe, beVars, uuids>>
      OBVIOUS
    <2> HIDE DEF Hear
    <2>3. waiters' \in 0 .. 2 /\ dialing' \in 0 .. 2
      BY <2>1
    <2>4. announced' \in BOOLEAN
      BY <2>1
    <2> QED
      BY <2>2, <2>3, <2>4 DEF IInv, TypeOK
  <1>2. Integrated' = Integrated /\ Busy' = Busy
    BY DEF Integrated, Busy
  <1>3. Locking'
    BY <1>0, <1>2 DEF IInv, Locking
  <1>4. Awaited'
    BY <1>0 DEF Awaited
  <1>5. EntriesOK' /\ TablesOK' /\ DiskOK' /\ NobodyForgotten' /\ UuidsOK'
    <2>1. Loadable' => Loadable
      BY DEF Loadable
    <2> QED
      BY <2>1, GateStep
  <1> QED
    BY <1>1, <1>3, <1>4, <1>5 DEF IInv

LEMMA ConnectStep ==
  ASSUME Deployed, IInv, Connect
  PROVE  IInv'
  <1> USE DEF Connect, connVars, beVars, tables
  <1>0. /\ locked /\ req = "none" /\ waiters = 0 /\ dialing = 1 /\ backend = "up"
        /\ ~announced
    BY DEF IInv, TypeOK, Locking, Awaited
  <1>1. TypeOK'
    <2>1. dialing' = 0 /\ locked' = FALSE /\ client' = TRUE /\ fe' = fe
      BY <1>0
    <2>2. UNCHANGED <<deployment, connVars, req, waiters, announced, fuuid, beVars, uuids>>
      OBVIOUS
    <2> HIDE DEF Connect
    <2>3. dialing' \in 0 .. 2
      BY <2>1
    <2>4. locked' \in BOOLEAN /\ client' \in BOOLEAN
      BY <2>1
    <2> QED
      BY <2>1, <2>2, <2>3, <2>4 DEF IInv, TypeOK
  <1>2. Integrated' = Integrated /\ Busy' = Busy
    BY DEF Integrated, Busy
  <1>3. Locking'
    BY <1>0, <1>2 DEF IInv, Locking
  <1>4. Awaited'
    BY <1>0 DEF Awaited
  <1>5. EntriesOK' /\ TablesOK' /\ DiskOK' /\ NobodyForgotten' /\ UuidsOK'
    <2>1. Loadable' => Loadable
      BY DEF Loadable
    <2> QED
      BY <1>0, <2>1, GateStep
  <1> QED
    BY <1>1, <1>3, <1>4, <1>5 DEF IInv

LEMMA FrontendRestartStep ==
  ASSUME Deployed, IInv, FrontendRestart
  PROVE  IInv'
  <1> USE FrontendAssumption DEF Deployed, feVars, waitVars, tables, beVars, connVars, FrontendRestart, EmptyTables, FirstBackend
  <1>0. Integrated' = Integrated /\ deployment' = deployment
    BY DEF Integrated
  <1>1. TypeOK'
    <2>1. backend' \in BackendStates /\ fuuid' \in Uuids /\ buuid' \in Uuids
      BY DEF BackendStates, Uuids
    <2>2. /\ sock' \in [Conns -> {"unused", "open", "shut"}]
          /\ hc' \in [Conns -> Positions]
      BY DEF Positions
    <2>3. locked' \in BOOLEAN /\ client' \in BOOLEAN /\ trusted' \in BOOLEAN /\ announced' \in BOOLEAN
      OBVIOUS
    <2>4. waiters' \in 0 .. 2 /\ dialing' \in 0 .. 2
      OBVIOUS
    <2>5. /\ deployment' = deployment /\ uuids' = uuids /\ disk' = disk
          /\ entry' = {} /\ callback' = {} /\ fresh' = {} /\ online' = {} /\ stale' = {} /\ joined' = {}
          /\ req' = "none" /\ fe' = "up"
      OBVIOUS
    <2> HIDE DEF FrontendRestart, EmptyTables, FirstBackend
    <2> QED
      BY <2>1, <2>2, <2>3, <2>4, <2>5 DEF IInv, TypeOK
  <1>2. Locking'
    BY DEF IInv, TypeOK, Locking, UuidsOK, Busy, InFlight
  <1>8. Awaited'
    BY <1>0 DEF IInv, TypeOK, Locking, Awaited
  <1>3. UuidsOK'
    BY DEF IInv, TypeOK, Locking, UuidsOK, Uuids
  <1>4. EntriesOK'
    BY DEF IInv, TypeOK, Locking, EntriesOK, Busy, InFlight
  <1>5. TablesOK'
    BY DEF TablesOK, Announced, Server, Seen, Established, TypeOK
  <1>6. DiskOK'
    BY DEF DiskOK, DiskGood, Announced, Server, Seen, Loadable
  <1>7. NobodyForgotten'
    BY DEF NobodyForgotten, Remembered, Established
  <1> QED
    BY <1>1, <1>2, <1>3, <1>4, <1>5, <1>6, <1>7, <1>8 DEF IInv

LEMMA NextIInv ==
  ASSUME Deployed
  PROVE  IInv /\ [Next]_vars => IInv'
  <1> SUFFICES ASSUME IInv, [Next]_vars PROVE IInv'
    OBVIOUS
  <1>1. CASE UNCHANGED vars
    <2> USE <1>1 DEF vars, connVars, feVars, waitVars, beVars, tables
    <2>1. /\ Integrated' = Integrated /\ Busy' = Busy /\ Loadable' = Loadable
          /\ Established' = Established /\ Announced' = Announced
      BY DEF Integrated, Busy, Loadable, Established, Announced, Server
    <2>2. TypeOK' /\ Locking' /\ Awaited' /\ UuidsOK' /\ EntriesOK'
      BY <2>1 DEF IInv, TypeOK, Locking, Awaited, UuidsOK, EntriesOK
    <2>3. TablesOK' /\ DiskOK' /\ NobodyForgotten'
      BY <2>1 DEF IInv, TablesOK, Seen, DiskOK, DiskGood, NobodyForgotten, Remembered
    <2> QED
      BY <2>2, <2>3 DEF IInv
  <1>2. ASSUME NEW c \in Conns, ConnStep(c)
        PROVE  IInv'
    BY <1>2, AcceptStep, PeerCloseStep, ReadStep, BeginCallStep, EndCallStep, CallFailsStep,
       CallFrontendStep, FrontendServesStep DEF ConnStep
  <1>3. CASE BackendStep
    BY <1>3, ShutdownBackendStep, GrantedStep, SaveStep, WriteUuidStep, CrashStep,
       StartBackendStep, VerifyStateStep, ReadyStep, HearStep, ConnectStep DEF BackendStep
  <1>4. CASE FrontendRestart
    BY <1>4, FrontendRestartStep
  <1> QED
    BY <1>1, <1>2, <1>3, <1>4 DEF Next

LEMMA IInvInvariant ==
  ASSUME Deployed
  PROVE  Spec => []IInv
  <1>1. IInv /\ [Next]_vars => IInv'
    BY NextIInv
  <1> QED
    BY InitIInv, <1>1, PTL DEF Spec

-----------------------------------------------------------------------------
(* The theorems. *)

\* Type correctness of the two processes, the state directory and the uuids.
THEOREM TypeCorrect ==
  ASSUME Deployed
  PROVE  Spec => []TypeOK
  BY IInvInvariant, PTL DEF IInv

\* ShutdownBackend's lock and wait: the backend saves, and its successor loads, while
\* no handler runs.
THEOREM SavesAtRest ==
  ASSUME Deployed
  PROVE  Spec => []Quiesced
  <1>1. IInv => Quiesced
    BY DEF IInv, TypeOK, Locking, Quiesced
  <1> QED
    BY IInvInvariant, <1>1, PTL

\* waitForBackend always finds the mutex locked.
THEOREM SingleUnlock ==
  ASSUME Deployed
  PROVE  Spec => []UnlockExpectsLocked
  <1>1. IInv => UnlockExpectsLocked
    BY DEF IInv, Locking, UnlockExpectsLocked
  <1> QED
    BY IInvInvariant, <1>1, PTL

\* Across restarts and crashes, VerifyState's uuid check keeps the backend from taking
\* live sessions of connections that are gone (gpcm and gamestats).
THEOREM NoOrphanEver ==
  ASSUME Deployed
  PROVE  Spec => []NoOrphan
  <1>1. IInv => NoOrphan
    BY DEF IInv, TablesOK, Established, NoOrphan
  <1> QED
    BY IInvInvariant, <1>1, PTL

\* On a split frontend, every connection that has survived a restart still has its session, if
\* it had one that its server saves: at gpcm, if it had logged in.
THEOREM NoStrangerWhenSplit ==
  ASSUME Deployed
  PROVE  Spec => []NoStranger
  <1>1. IInv => NoStranger
    BY DEF IInv, EntriesOK, NobodyForgotten, Remembered, Established, NoStranger
  <1> QED
    BY IInvInvariant, <1>1, PTL

-----------------------------------------------------------------------------
(* The refinement.  What a backend has written is what it had, and what its *)
(* successor has loaded is what was written.                                *)

HandedOver ==
  disk.complete /\ (backend = "saved" \/ (backend \in {"verified", "up"} /\ Loadable /\ disk.uuid = fuuid))
    => trusted /\ disk.online = online

\* A step of Handover for a step of the processes, with what it leaves of the sessions.
Implemented == [Restarts!Next]_(Restarts!vars) /\ HandedOver'

\* A step that opens or closes nothing and begins or ends no call.
LEMMA QuietStep ==
  ASSUME Gate' = Gate, Busy' = Busy, Held' = Held \/ Held' = {}, HandedOver'
  PROVE  Implemented
  BY DEF Implemented, Restarts!Next, Restarts!vars, Restarts!Lose

\* What the handlers of the frontend leave alone.
LEMMA FrontendKeeps ==
  ASSUME HandedOver, UNCHANGED <<feVars, beVars>>
  PROVE  Gate' = Gate /\ Held' = Held /\ HandedOver'
  BY DEF feVars, waitVars, beVars, tables, Gate, Held, Loadable, HandedOver

LEMMA NoCallSteps ==
  ASSUME IInv, HandedOver, NEW c \in Conns,
         Accept(c) \/ PeerClose(c) \/ Read(c) \/ CallFrontend(c) \/ FrontendServes(c)
  PROVE  Implemented
  <1>1. Gate' = Gate /\ Held' = Held /\ HandedOver'
    BY FrontendKeeps DEF Accept, PeerClose, Read, CallFrontend, FrontendServes
  <1>2. Busy' = Busy
    BY DEF IInv, TypeOK, Busy, InFlight, Goto, Accept, PeerClose, Read, CallFrontend, FrontendServes
  <1> QED
    BY <1>1, <1>2, QuietStep

LEMMA BeginCallHandover ==
  ASSUME IInv, HandedOver, NEW c \in Conns, BeginCall(c)
  PROVE  Implemented
  <1>1. Gate' = Gate /\ Held' = Held /\ HandedOver'
    BY FrontendKeeps DEF BeginCall
  <1>2. Gate = "open"
    BY DEF BeginCall, Gate
  <1>3. Busy' = Busy \/ Busy' = Busy \cup {c}
    <2>1. PICK position : hc' = [hc EXCEPT ![c] = position]
      BY DEF BeginCall, Finish, Goto
    <2>2. hc[c] \notin InFlight
      BY DEF BeginCall, InFlight
    <2>3. \A d \in Conns : d # c => hc'[d] = hc[d]
      BY <2>1 DEF IInv, TypeOK
    <2>4. c \notin Busy
      BY <2>2 DEF Busy
    <2>5. CASE hc'[c] \in InFlight
      BY <2>3, <2>5 DEF Busy
    <2>6. CASE hc'[c] \notin InFlight
      BY <2>3, <2>4, <2>6 DEF Busy
    <2> QED
      BY <2>5, <2>6
  <1>4. CASE Busy' = Busy
    BY <1>1, <1>4, QuietStep
  <1>5. CASE Busy' = Busy \cup {c}
    BY <1>1, <1>2, <1>5 DEF Implemented, Restarts!Next, Restarts!Enter
  <1> QED
    BY <1>3, <1>4, <1>5

\* Leaving a call takes c out of the calls in flight.
LEMMA LeaveCall ==
  ASSUME IInv, NEW c \in Conns, EndCall(c) \/ CallFails(c)
  PROVE  c \in Busy /\ Busy' = Busy \ {c}
  <1>1. c \in Busy
    BY DEF EndCall, CallFails, Busy, InFlight
  <1>2. PICK position : hc' = [hc EXCEPT ![c] = position] /\ position \in Positions \ InFlight
    BY DEF EndCall, CallFails, Finish, Goto, Positions, InFlight
  <1>3. \A d \in Conns : d # c => hc'[d] = hc[d]
    BY <1>2 DEF IInv, TypeOK
  <1>4. hc'[c] \notin InFlight
    BY <1>2 DEF IInv, TypeOK
  <1> QED
    BY <1>1, <1>3, <1>4 DEF Busy

LEMMA EndCallHandover ==
  ASSUME IInv, HandedOver, NEW c \in Conns, EndCall(c)
  PROVE  Implemented
  <1>1. c \in Busy /\ Busy' = Busy \ {c}
    BY LeaveCall
  <1>2. Gate' = Gate
    BY DEF EndCall, feVars, Gate
  <1>3. backend = "up" /\ backend' = "up" /\ trusted' = trusted /\ ~Loadable'
    BY <1>1 DEF IInv, TypeOK, Locking, EndCall, Serving, Loadable, feVars
  <1>4. online' \in {online, online \cup {c}, online \ {c}}
    <2> TypeOK
      BY DEF IInv
    <2> QED
      BY GreetKeeps, HandlePacketKeeps DEF EndCall, Forget
  <1>5. Held' \in {Held, Held \cup {c}, Held \ {c}}
    BY <1>3, <1>4 DEF Held
  <1>6. HandedOver'
    BY <1>3 DEF HandedOver
  <1> QED
    BY <1>1, <1>2, <1>5, <1>6 DEF Implemented, Restarts!Next, Restarts!Return

LEMMA CallFailsHandover ==
  ASSUME IInv, HandedOver, NEW c \in Conns, CallFails(c)
  PROVE  Implemented
  <1>1. c \in Busy /\ Busy' = Busy \ {c}
    BY LeaveCall
  <1>2. Gate' = Gate /\ Held' = Held /\ HandedOver'
    BY FrontendKeeps DEF CallFails
  <1> QED
    BY <1>1, <1>2 DEF Implemented, Restarts!Next, Restarts!Return

\* The steps of the shutdown and of the backend leave the calls alone.
LEMMA BusyKept ==
  ASSUME UNCHANGED hc
  PROVE  Busy' = Busy
  BY DEF Busy

LEMMA ShutdownBackendHandover ==
  ASSUME IInv, HandedOver, NEW who \in {"shutdown", "reload"}, ShutdownBackend(who)
  PROVE  Implemented
  <1> USE DEF ShutdownBackend, connVars, beVars, tables
  <1>1. Busy' = Busy
    BY BusyKept
  <1>2. Gate = "open" /\ Gate' = "closing"
    BY DEF Gate
  <1>3. ~Loadable /\ ~Loadable'
    BY DEF Loadable
  <1>4. Held' = Held
    BY <1>3 DEF Held
  <1>5. HandedOver'
    BY <1>3 DEF HandedOver
  <1> QED
    BY <1>1, <1>2, <1>4, <1>5 DEF Implemented, Restarts!Next, Restarts!Shut

\* The uuid that is drawn is not that of the state directory.
LEMMA GrantedHandover ==
  ASSUME IInv, HandedOver, Granted
  PROVE  Implemented
  <1> USE DEF Granted, connVars, tables
  <1>1. Busy' = Busy /\ Busy = {}
    BY BusyKept
  <1>2. Gate = "closing" /\ Gate' = "closed"
    BY DEF IInv, Locking, Gate
  <1>3. ~Loadable
    BY DEF Loadable
  <1>4. ~(Loadable' /\ disk'.uuid = fuuid')
    <2>1. CASE Integrated
      BY <2>1 DEF Loadable
    <2>2. CASE ~Integrated
      BY <2>2 DEF IInv, TypeOK, Uuids, UuidsOK
    <2> QED
      BY <2>1, <2>2
  <1>5. backend \in {"up", "off"} /\ backend' \in {"stopping", "off"} /\ (backend = "off" <=> backend' = "off")
    BY DEF IInv, Locking
  <1>6. Held' = Held
    BY <1>3, <1>4, <1>5 DEF Held
  <1>7. HandedOver'
    BY <1>5 DEF HandedOver
  <1> QED
    BY <1>1, <1>2, <1>6, <1>7 DEF Implemented, Restarts!Next, Restarts!Drained

LEMMA SaveHandover ==
  ASSUME IInv, HandedOver, Save
  PROVE  Implemented
  <1>0. /\ UNCHANGED <<connVars, feVars, buuid>> /\ backend = "stopping"
        /\ buuid = 0 => backend' = "off"
        /\ buuid # 0 => backend' = "saved" /\ UNCHANGED <<tables, trusted>>
    BY DEF Save
  <1>1. Busy' = Busy
    BY <1>0, BusyKept DEF connVars
  <1>2. Gate' = Gate
    BY <1>0 DEF Gate, feVars
  <1>3. CASE buuid = 0
    <2>1. backend' = "off" /\ ~Loadable'
      BY <1>0, <1>3 DEF Loadable
    <2>2. Held' = {} /\ HandedOver'
      BY <2>1 DEF Held, HandedOver
    <2> QED
      BY <1>1, <1>2, <2>2, QuietStep
  <1>4. CASE buuid # 0
    <2>1. backend' = "saved" /\ Held' = Held /\ online' = online /\ trusted' = trusted
      BY <1>0, <1>4 DEF Held, tables
    <2>2. disk'.complete => trusted /\ disk'.online = online
      BY <1>4, SavedDisk
    <2>3. HandedOver'
      BY <2>1, <2>2 DEF HandedOver
    <2> QED
      BY <1>1, <1>2, <2>1, <2>3, QuietStep
  <1> QED
    BY <1>3, <1>4

LEMMA WriteUuidHandover ==
  ASSUME IInv, HandedOver, WriteUuid
  PROVE  Implemented
  <1> USE DEF WriteUuid, EmptyTables, waitVars, connVars, feVars
  <1>1. Busy' = Busy
    BY BusyKept
  <1>2. Gate' = Gate
    BY DEF Gate
  <1>3. disk'.online = disk.online /\ disk'.complete = disk.complete
    BY DEF IInv, TypeOK
  <1>4. CASE Loadable' /\ disk'.uuid = fuuid'
    <2>1. Held' = disk.online
      BY <1>3, <1>4 DEF Held
    <2>2. trusted /\ disk.online = online
      BY <1>3, <1>4 DEF Loadable, HandedOver
    <2>3. Held' = Held
      BY <2>1, <2>2 DEF Held
    <2> QED
      BY <1>1, <1>2, <2>3, QuietStep DEF HandedOver
  <1>5. CASE ~(Loadable' /\ disk'.uuid = fuuid')
    <2>1. Held' = {}
      BY <1>5 DEF Held
    <2> QED
      BY <1>1, <1>2, <2>1, QuietStep DEF HandedOver
  <1> QED
    BY <1>4, <1>5

\* A backend that has loaded the state may die: the state is still there.
LEMMA CrashHandover ==
  ASSUME IInv, HandedOver, Crash
  PROVE  Implemented
  <1> USE DEF Crash, EmptyTables, waitVars, feVars
  <1>1. Busy' = Busy
    BY BusyKept
  <1>2. Gate' = Gate /\ (Loadable' <=> Loadable)
    BY DEF Gate, Loadable
  <1>3. Held' = Held \/ Held' = {}
    <2>1. CASE ~(Loadable /\ disk.uuid = fuuid)
      BY <1>2, <2>1 DEF Held
    <2>2. CASE Loadable /\ disk.uuid = fuuid
      <3>1. Held' = disk.online
        BY <1>2, <2>2 DEF Held
      <3>2. backend \in {"off", "starting", "verified", "up"}
        BY <2>2 DEF IInv, TypeOK, BackendStates, Locking, UuidsOK, Loadable
      <3>3. CASE backend = "starting" \/ backend = "off"
        BY <2>2, <3>1, <3>3 DEF Held
      <3>4. CASE backend = "verified" \/ backend = "up"
        <4>1. trusted /\ disk.online = online
          BY <2>2, <3>4 DEF Loadable, HandedOver
        <4> QED
          BY <3>1, <3>4, <4>1 DEF Held
      <3> QED
        BY <3>2, <3>3, <3>4
    <2> QED
      BY <2>1, <2>2
  <1>4. HandedOver'
    BY DEF HandedOver
  <1> QED
    BY <1>1, <1>2, <1>3, <1>4, QuietStep

\* Where MayStart is needed: a backend that was started without the state leaves it behind.
LEMMA StartBackendHandover ==
  ASSUME Deployed, IInv, HandedOver, StartBackend
  PROVE  Implemented
  <1> USE DEF StartBackend, connVars
  <1>1. Busy' = Busy
    BY BusyKept
  <1>2. Gate' = Gate
    <2>1. CASE req = "restart"
      BY <2>1 DEF Gate
    <2>2. CASE req # "restart"
      BY <2>2 DEF Gate
    <2> QED
      BY <2>1, <2>2
  <1>3. Held' = Held \/ Held' = {}
    <2>1. CASE req = "restart"
      BY <2>1 DEF IInv, Locking, UuidsOK, Held, Loadable
    <2>2. CASE req # "restart"
      <3>1. PICK uuid \in {0, disk.uuid} : MayStart(uuid) /\ buuid' = uuid
        BY <2>2
      <3>2. CASE Loadable' /\ disk'.uuid = fuuid'
        <4>1. Loadable /\ disk.uuid = fuuid
          BY <2>2, <3>1, <3>2 DEF Deployed, MayStart, Loadable
        <4> QED
          BY <3>2, <4>1 DEF Held
      <3>3. CASE ~(Loadable' /\ disk'.uuid = fuuid')
        BY <3>3 DEF Held
      <3> QED
        BY <3>2, <3>3
    <2> QED
      BY <2>1, <2>2
  <1>4. HandedOver'
    BY DEF HandedOver
  <1> QED
    BY <1>1, <1>2, <1>3, <1>4, QuietStep

LEMMA VerifyStateHandover ==
  ASSUME IInv, HandedOver, VerifyState
  PROVE  Implemented
  <1>0. UNCHANGED <<hc, feVars, buuid, disk>> /\ backend = "starting"
    BY DEF VerifyState
  <1>1. Busy' = Busy
    BY <1>0, BusyKept
  <1>2. Gate' = Gate /\ (Loadable' <=> Loadable)
    BY <1>0 DEF Gate, Loadable, feVars
  <1>3. CASE Exits
    <2>1. ~Loadable /\ backend' = "off"
      BY <1>3 DEF Exits, Loadable
    <2>2. Held' = {} /\ HandedOver'
      BY <1>2, <2>1 DEF Held, HandedOver
    <2> QED
      BY <1>1, <1>2, <2>2, QuietStep
  <1>4. CASE StartsAnew
    <2>1. ~(Loadable /\ disk.uuid = fuuid)
      BY <1>0, <1>4 DEF IInv, UuidsOK, StartsAnew, Loadable
    <2>2. backend' = "verified" /\ online' = {}
      BY <1>4 DEF StartsAnew, EmptyTables
    <2>3. Held' = {} /\ HandedOver'
      BY <1>0, <1>2, <2>1, <2>2 DEF Held, HandedOver, feVars
    <2> QED
      BY <1>1, <1>2, <2>3, QuietStep
  <1>5. CASE GoesOn /\ buuid = 0
    <2>1. ~Loadable
      BY <1>5 DEF Loadable
    <2>2. backend' = "verified" /\ online' = {}
      BY <1>5 DEF GoesOn, EmptyTables
    <2>3. Held' = {} /\ HandedOver'
      BY <1>2, <2>1, <2>2 DEF Held, HandedOver
    <2> QED
      BY <1>1, <1>2, <2>3, QuietStep
  <1>6. CASE GoesOn /\ buuid # 0
    <2>1. backend' = "verified" /\ online' = disk.online /\ trusted' = disk.complete
      BY <1>6 DEF GoesOn, LoadState
    <2>2. disk.uuid = fuuid /\ req = "none" /\ locked
      BY <1>0, <1>6 DEF IInv, TypeOK, Locking, UuidsOK, GoesOn
    <2>3. (Loadable <=> disk.complete) /\ disk' = disk
      BY <1>0, <1>6, <2>2 DEF Loadable, GoesOn
    <2>4. Held' = Held
      BY <1>0, <2>1, <2>2, <2>3 DEF Held
    <2>5. HandedOver'
      BY <2>1, <2>3 DEF HandedOver
    <2> QED
      BY <1>1, <1>2, <2>4, <2>5, QuietStep
  <1> QED
    BY <1>3, <1>4, <1>5, <1>6, VerifyStateEnds

LEMMA ReadyHandover ==
  ASSUME IInv, HandedOver, Ready
  PROVE  Implemented
  <1> USE DEF Ready, connVars, tables
  <1>1. Busy' = Busy
    BY BusyKept
  <1>2. Gate' = Gate /\ (Loadable' <=> Loadable)
    BY DEF Gate, Loadable
  <1>3. Held' = Held /\ HandedOver'
    BY <1>2 DEF Held, HandedOver
  <1> QED
    BY <1>1, <1>2, <1>3, QuietStep

LEMMA HearHandover ==
  ASSUME IInv, HandedOver, Hear
  PROVE  Implemented
  <1> USE DEF Hear, connVars, beVars, tables
  <1>1. Busy' = Busy
    BY BusyKept
  <1>2. Gate' = Gate /\ (Loadable' <=> Loadable)
    BY DEF Gate, Loadable
  <1>3. Held' = Held /\ HandedOver'
    BY <1>2 DEF Held, HandedOver
  <1> QED
    BY <1>1, <1>2, <1>3, QuietStep

\* The frontend is connected to a backend that is ready: the gate opens.
LEMMA ConnectHandover ==
  ASSUME IInv, HandedOver, Connect
  PROVE  Implemented
  <1> USE DEF Connect, connVars, beVars, tables
  <1>1. Busy' = Busy
    BY BusyKept
  <1>2. locked /\ req = "none" /\ backend = "up"
    BY DEF IInv, TypeOK, Locking, Awaited
  <1>3. Gate = "closed" /\ Gate' = "open" /\ ~Loadable'
    BY <1>2 DEF Gate, Loadable
  <1>4. Held' = Held /\ HandedOver'
    BY <1>2, <1>3 DEF Held, HandedOver
  <1> QED
    BY <1>1, <1>3, <1>4 DEF Implemented, Restarts!Next, Restarts!Reopen

LEMMA FrontendRestartHandover ==
  ASSUME FrontendRestart
  PROVE  Implemented
  <1> USE DEF FrontendRestart, FirstBackend, EmptyTables
  <1>1. Busy' = {}
    BY DEF Busy, InFlight
  <1>2. Gate' = "closed" /\ ~Loadable'
    BY DEF Gate, Loadable
  <1>3. Held' = {} /\ HandedOver'
    BY <1>2 DEF Held, HandedOver
  <1> QED
    BY <1>1, <1>2, <1>3 DEF Implemented, Restarts!Next, Restarts!Reset

LEMMA NextHandover ==
  ASSUME Deployed, IInv, HandedOver, [Next]_vars
  PROVE  Implemented
  <1>1. CASE UNCHANGED vars
    <2>1. Busy' = Busy
      BY <1>1, BusyKept DEF vars, connVars
    <2>2. Gate' = Gate /\ Held' = Held /\ HandedOver'
      BY <1>1, FrontendKeeps DEF vars
    <2> QED
      BY <2>1, <2>2, QuietStep
  <1>2. ASSUME NEW c \in Conns, ConnStep(c)
        PROVE  Implemented
    BY <1>2, NoCallSteps, BeginCallHandover, EndCallHandover, CallFailsHandover DEF ConnStep
  <1>3. CASE BackendStep
    BY <1>3, ShutdownBackendHandover, GrantedHandover, SaveHandover, WriteUuidHandover, CrashHandover,
       StartBackendHandover, VerifyStateHandover, ReadyHandover, HearHandover, ConnectHandover DEF BackendStep
  <1>4. CASE FrontendRestart
    BY <1>4, FrontendRestartHandover
  <1> QED
    BY <1>1, <1>2, <1>3, <1>4 DEF Next

\* Across shutdowns, saves, crashes, starts and verifications the two processes are one service
\* with a gate: no call begins while it is shut, a call changes the session of its own
\* connection only, and a restart hands over the sessions that the servers save (those of gpcm
\* that have logged in) or loses them all.
THEOREM RestartsAreHandovers ==
  ASSUME Deployed
  PROVE  Spec => ImplementsHandover
  <1>1. Init => Restarts!Init /\ HandedOver
    <2> SUFFICES ASSUME Init PROVE Restarts!Init /\ HandedOver
      OBVIOUS
    <2>1. Busy = {} /\ Gate = "closed" /\ ~Loadable
      BY DEF Init, Busy, InFlight, Gate, Loadable
    <2>2. backend \in {"off", "starting"}
      BY DEF Init, FirstBackend
    <2>3. Held = {} /\ HandedOver
      BY <2>1, <2>2 DEF Held, HandedOver
    <2> QED
      BY <2>1, <2>3 DEF Restarts!Init
  <1>2. IInv /\ HandedOver /\ [Next]_vars => [Restarts!Next]_(Restarts!vars) /\ HandedOver'
    BY NextHandover DEF Implemented
  <1> QED
    BY IInvInvariant, <1>1, <1>2, PTL DEF Spec, ImplementsHandover, Restarts!Spec
=============================================================================
