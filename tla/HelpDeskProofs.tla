--------------------------- MODULE HelpDeskProofs ---------------------------
(***************************************************************************)
(* Proofs about HelpDesk, part by part, for any number of requests, users, *)
(* rows and operations. No part can disturb another: each is proved from   *)
(* its own steps.                                                          *)
(***************************************************************************)
EXTENDS HelpDesk, TLAPS, FiniteSetTheorems, SequenceTheorems, WellFoundedInduction

-----------------------------------------------------------------------------
(* The guard *)

GateStep == CacheExpires \/ \E r \in Requests : GateNext(r) \/ Enter(r)

LEMMA GateSteps == [Next]_vars => GateStep \/ UNCHANGED gateVars
<1>. SUFFICES ASSUME [Next]_vars PROVE GateStep \/ UNCHANGED gateVars
  OBVIOUS
<1>1. ASSUME NEW r \in Requests, AtGate(r) \/ Begin(r) \/ Pass(r) PROVE GateStep
  BY <1>1 DEF AtGate, Begin, Pass, GateStep
<1>2. CASE Next
  BY <1>1, <1>2 DEF Next, AtNotices, AtLists, GateStep
<1>. QED  BY <1>2 DEF vars

LEMMA Moving ==
  ASSUME GateTypeOK, NEW r \in Requests, NEW v \in Visitor, Moves(r, v)
  PROVE  visitor' \in [Requests -> Visitor]
BY DEF GateTypeOK, Moves

LEMMA AwayIsVisitor ==
  /\ Away \in Visitor
  /\ \A admin \in BOOLEAN, saw \in Mode, at \in Place :
       /\ [Away EXCEPT !.at = at, !.admin = admin] \in Visitor
       /\ [Away EXCEPT !.at = at, !.admin = admin, !.saw = saw] \in Visitor
BY DEF Away, Visitor, Place, Mode

LEMMA GateTypeKept == GateTypeOK /\ (GateStep \/ UNCHANGED gateVars) => GateTypeOK'
<1>. SUFFICES ASSUME GateTypeOK, GateStep PROVE GateTypeOK'
  BY DEF GateTypeOK, gateVars
<1>. USE DEF GateTypeOK
<1>0. /\ "Inside" \in Place /\ "Looking" \in Place
      /\ \A r \in Requests : visitor[r] \in Visitor /\ visitor[r].admin \in BOOLEAN
                             /\ visitor[r].saw \in Mode /\ visitor[r].wants \in Mode
  BY DEF Place, Visitor
<1>1. ASSUME NEW r \in Requests, Enter(r) \/ LoseVisitor(r) PROVE GateTypeOK'
  <2>1. visitor' \in [Requests -> Visitor]
    BY <1>1, AwayIsVisitor, Moving DEF Enter, LoseVisitor
  <2>. QED  BY <1>1, <2>1 DEF Enter, LoseVisitor
<1>2. ASSUME NEW r \in Requests, NEW admin \in BOOLEAN, Arrive(r, admin) PROVE GateTypeOK'
  <2>1. CASE ArriveCached(r, admin)
    <3>1. visitor' \in [Requests -> Visitor]
      BY <1>0, <2>1, AwayIsVisitor, Moving DEF ArriveCached
    <3>. QED  BY <2>1, <3>1 DEF ArriveCached
  <2>2. CASE ArriveMissed(r, admin)
    <3>1. visitor' \in [Requests -> Visitor]
      BY <1>0, <2>2, AwayIsVisitor, Moving DEF ArriveMissed
    <3>. QED  BY <2>2, <3>1 DEF ArriveMissed
  <2>. QED  BY <1>2, <2>1, <2>2 DEF Arrive
<1>3. ASSUME NEW r \in Requests, NEW wants \in Mode, BeginSwitch(r, wants) PROVE GateTypeOK'
  <2>1. updates' \in 0..MaxUpdates
    BY <1>3, MaintenanceAssumption DEF BeginSwitch
  <2>2. [visitor[r] EXCEPT !.at = "Writing", !.saw = mode, !.wants = wants] \in Visitor
    BY <1>0 DEF Visitor, Place
  <2>3. visitor' \in [Requests -> Visitor]
    BY <1>3, <2>2, Moving DEF BeginSwitch
  <2>. QED  BY <1>3, <2>1, <2>3 DEF BeginSwitch
<1>4. ASSUME NEW r \in Requests, Decide(r) PROVE GateTypeOK'
  <2>1. visitor' \in [Requests -> Visitor]
    BY <1>0, <1>4, AwayIsVisitor, Moving DEF Decide
  <2>. QED  BY <1>0, <1>4, <2>1 DEF Decide, Caches
<1>5. ASSUME NEW r \in Requests, CommitSwitch(r) PROVE GateTypeOK'
  <2>1. [visitor[r] EXCEPT !.at = "Publishing"] \in Visitor
    BY <1>0 DEF Visitor, Place
  <2>2. visitor' \in [Requests -> Visitor]
    BY <1>5, <2>1, Moving DEF CommitSwitch
  <2>. QED  BY <1>0, <1>5, <2>2 DEF CommitSwitch
<1>6. ASSUME NEW r \in Requests, PublishSwitch(r) PROVE GateTypeOK'
  <2>1. visitor' \in [Requests -> Visitor]
    BY <1>6, AwayIsVisitor, Moving DEF PublishSwitch
  <2>. QED  BY <1>0, <1>6, <2>1 DEF PublishSwitch, Caches
<1>7. CASE CacheExpires
  BY <1>7 DEF CacheExpires
<1>. QED  BY <1>1, <1>2, <1>3, <1>4, <1>5, <1>6, <1>7 DEF GateStep, GateNext

LEMMA GateTypeHolds == Spec => []GateTypeOK
<1>1. Init => GateTypeOK
  BY MaintenanceAssumption DEF Init, GateInit, GateTypeOK, Away, Visitor, Place, Mode
<1>. QED  BY <1>1, GateSteps, GateTypeKept, PTL DEF Spec

\* What a request r holds after a step that only r makes.
LEMMA OthersAsBefore ==
  ASSUME GateTypeOK, NEW r \in Requests, NEW v, Moves(r, v), mode' = mode,
         NEW s \in Requests, s # r
  PROVE  Outdated(s)' = Outdated(s)
BY DEF GateTypeOK, Moves, Outdated

\* MaintenanceService.getState, updateState: between two updates the requests
\* that hold a state the switch has left only become fewer, and each can spoil
\* the cache once. Whatever the number of requests, this is what lets the cache
\* settle.
THEOREM StatesDoNotComeBack == Spec => NoStateComesBack
<1>. DEFINE Fresh ==
              UNCHANGED <<mode, updates>> =>
                /\ \A r \in Requests : Outdated(r)' => Outdated(r)
                /\ \/ cached' \in {cached, "NONE", mode}
                   \/ \E r \in Requests : Outdated(r) /\ ~Outdated(r)'
<1>1. GateTypeOK /\ [Next]_vars => [Fresh]_gateVars
  <2>. SUFFICES ASSUME GateTypeOK, GateStep, UNCHANGED <<mode, updates>>
                PROVE  /\ \A r \in Requests : Outdated(r)' => Outdated(r)
                       /\ \/ cached' \in {cached, "NONE", mode}
                          \/ \E r \in Requests : Outdated(r) /\ ~Outdated(r)'
    BY GateSteps
  <2>1. CASE CacheExpires
    BY <2>1 DEF CacheExpires, Outdated
  <2>2. ASSUME NEW r \in Requests, GateNext(r) \/ Enter(r)
        PROVE  /\ \E v : Moves(r, v)
               /\ Outdated(r)' => Outdated(r)
               /\ cached' \in {cached, "NONE", mode} \/ (Outdated(r) /\ ~Outdated(r)')
    <3>0. visitor[r] \in Visitor /\ \A v : Moves(r, v) => visitor'[r] = v
      BY DEF GateTypeOK, Moves
    <3>1. CASE Enter(r) \/ LoseVisitor(r)
      BY <3>1 DEF GateTypeOK, Enter, LoseVisitor, Moves, Away, Outdated
    <3>2. ASSUME NEW admin \in BOOLEAN, Arrive(r, admin)
          PROVE  (\E v : Moves(r, v)) /\ ~Outdated(r)' /\ cached' = cached
      BY <3>0, <3>2 DEF Arrive, ArriveCached, ArriveMissed, Away, Outdated
    <3>3. ASSUME NEW wants \in Mode, BeginSwitch(r, wants) PROVE FALSE
      BY <3>3 DEF BeginSwitch, GateTypeOK
    <3>4. CASE Decide(r)
      BY <3>4 DEF GateTypeOK, Decide, Caches, Moves, Away, Outdated
    <3>5. CASE CommitSwitch(r)
      <4>1. /\ visitor[r].at = "Writing" /\ cached' = cached
            /\ Moves(r, [visitor[r] EXCEPT !.at = "Publishing"])
            /\ visitor[r].wants # visitor[r].saw => mode' = visitor[r].wants
        BY <3>5 DEF CommitSwitch
      <4>2. visitor'[r].at = "Publishing" /\ visitor'[r].wants = visitor[r].wants
        BY <3>0, <4>1 DEF Visitor
      <4>3. Outdated(r)' => Outdated(r)
        BY <4>1, <4>2 DEF Outdated
      <4>4. \E v : Moves(r, v)
        BY <4>1
      <4>5. cached' \in {cached, "NONE", mode}
        BY <4>1
      <4>. QED  BY <4>3, <4>4, <4>5
    <3>6. CASE PublishSwitch(r)
      BY <3>0, <3>6 DEF PublishSwitch, Caches, Away, Outdated
    <3>. QED  BY <2>2, <3>1, <3>2, <3>3, <3>4, <3>5, <3>6 DEF GateNext
  <2>3. ASSUME NEW r \in Requests, GateNext(r) \/ Enter(r), NEW s \in Requests, Outdated(s)'
        PROVE  Outdated(s)
    BY <2>2, <2>3, OthersAsBefore
  <2>. QED  BY <2>1, <2>2, <2>3 DEF GateStep
<1>. QED  BY <1>1, GateTypeHolds, PTL DEF Spec, NoStateComesBack

-----------------------------------------------------------------------------
(* The staff *)

StaffStep ==
  \E r \in Requests :
    StaffNext(r) \/ \E op \in StaffAction, user \in Users \cup {NULL} : BeginStaff(r, op, user)

LEMMA StaffSteps == [Next]_vars => StaffStep \/ UNCHANGED staffVars
<1>. SUFFICES ASSUME [Next]_vars PROVE StaffStep \/ UNCHANGED staffVars
  OBVIOUS
<1>1. ASSUME NEW r \in Requests, BeginAtStaff(r) PROVE StaffStep
  BY <1>1 DEF BeginAtStaff, StaffStep
<1>2. ASSUME NEW r \in Requests, Begin(r) PROVE StaffStep \/ UNCHANGED staffVars
  BY <1>1, <1>2 DEF Begin, AtTickets
<1>3. ASSUME NEW r \in Requests, StaffNext(r) PROVE StaffStep
  BY <1>3 DEF StaffStep
<1>4. CASE Next
  BY <1>2, <1>3, <1>4 DEF Next, AtGate, Pass, AtTickets, AtNotices, AtLists
<1>. QED  BY <1>4 DEF vars

\* What a request has read before it asks what it asks.
StaffChecked(q) ==
  /\ q.op = "INVITED" => q.row.status = "NONE"
  /\ q.op \in {"INVITE_RESENT", "INVITE_ACCEPTED"} => q.row.status = "INVITED"
  /\ q.op = "INVITE_ACCEPTED" <=> q.user # NULL

\* An accepted invitation and one whose status was set are not open any more.
StaffSettled ==
  ~staffRaced /\ Done("INVITE_ACCEPTED") \cup Done("STATUS_CHANGED") # {}
    => member.status \notin {"NONE", "INVITED"}

StaffInv ==
  /\ StaffTypeOK
  /\ \A r \in Requests : staffRequest[r] # StaffIdle => StaffChecked(staffRequest[r])
  /\ StaffSettled
  /\ StaffOrderStands

LEMMA StaffAtFirst == StaffInit => StaffInv
<1>. SUFFICES ASSUME StaffInit PROVE StaffInv
  OBVIOUS
<1>1. StaffTypeOK
  <2>1. member \in Member
    BY DEF StaffInit, Member, StaffStatus
  <2>2. staffAudit \in Seq(StaffAudit)
    BY DEF StaffInit
  <2>3. staffRequest \in [Requests -> StaffRequest] /\ staffRaced \in BOOLEAN
    BY DEF StaffInit, StaffRequest
  <2>. QED  BY <2>1, <2>2, <2>3 DEF StaffTypeOK
<1>2. \A action : Done(action) = {}
  BY DEF StaffInit, Done
<1>. QED  BY <1>1, <1>2 DEF StaffInit, StaffInv, StaffSettled, StaffOrderStands

LEMMA StaffRequestType ==
  ASSUME StaffTypeOK, NEW r \in Requests, staffRequest[r].op # "Idle"
  PROVE  /\ staffRequest[r] # StaffIdle
         /\ staffRequest[r] \in [op : StaffAction, row : Member, user : Users \cup {NULL}]
BY DEF StaffTypeOK, StaffRequest, StaffIdle

\* The audit row comes last, and nothing of the others changes.
LEMMA RecordsLast ==
  ASSUME StaffTypeOK, NEW r \in Requests, staffRequest[r].op # "Idle",
         NEW new \in Member, NEW status \in StaffStatus, Records(r, new, status)
  PROVE  /\ StaffTypeOK'
         /\ \A i \in DOMAIN staffAudit :
              i # Len(staffAudit) + 1 /\ i <= Len(staffAudit) + 1 /\ staffAudit'[i] = staffAudit[i]
         /\ Len(staffAudit) + 1 \in Nat
         /\ staffAudit'[Len(staffAudit) + 1] = [action |-> staffRequest[r].op, status |-> status]
         /\ \A action : Done(action)' =
              IF action = staffRequest[r].op THEN Done(action) \cup {Len(staffAudit) + 1} ELSE Done(action)
<1>. DEFINE q == staffRequest[r]
            n == Len(staffAudit) + 1
            row == [action |-> q.op, status |-> status]
<1>1. /\ member' = new /\ staffAudit' = Append(staffAudit, row)
      /\ staffRaced' = (staffRaced \/ member # q.row)
      /\ staffRequest' = [staffRequest EXCEPT ![r] = StaffIdle]
  BY DEF Records
<1>2. q.op \in StaffAction
  BY StaffRequestType
<1>3. row \in StaffAudit /\ staffAudit \in Seq(StaffAudit)
  BY <1>2 DEF StaffAudit, StaffTypeOK
<1>4. staffAudit' \in Seq(StaffAudit)
  BY <1>1, <1>3
<1>5. StaffTypeOK'
  BY <1>1, <1>4 DEF StaffTypeOK, StaffRequest
<1>. HIDE DEF row
<1>6. /\ Len(staffAudit) \in Nat /\ DOMAIN staffAudit = 1..Len(staffAudit)
      /\ DOMAIN staffAudit' = DOMAIN staffAudit \cup {n} /\ n \in Nat
      /\ staffAudit'[n] = row
      /\ \A i \in DOMAIN staffAudit : i # n /\ i <= n /\ staffAudit'[i] = staffAudit[i]
  BY <1>1, <1>3
<1>7. row.action = q.op
  BY DEF row
<1>8. ASSUME NEW action
      PROVE  Done(action)' = IF action = q.op THEN Done(action) \cup {n} ELSE Done(action)
  BY <1>6, <1>7 DEF Done
<1>. QED  BY <1>5, <1>6, <1>8 DEF row

LEMMA NewTokenType ==
  ASSUME StaffTypeOK
  PROVE  NewToken \in Nat
<1>. DEFINE sent == {i \in DOMAIN staffAudit : staffAudit[i].action \in {"INVITED", "INVITE_RESENT"}}
<1>1. Len(staffAudit) \in Nat /\ sent \subseteq 1..Len(staffAudit)
  BY DEF StaffTypeOK
<1>2. IsFiniteSet(1..Len(staffAudit))
  BY <1>1, FS_Interval
<1>3. Cardinality(sent) \in Nat
  BY <1>1, <1>2, FS_Subset, FS_CardinalityType
<1>. QED  BY <1>3 DEF NewToken

LEMMA StaffStepKeeps == StaffInv /\ StaffStep => StaffInv'
<1>. SUFFICES ASSUME StaffInv, StaffStep PROVE StaffInv'
  OBVIOUS
<1>. USE DEF StaffInv
<1>0. member \in Member /\ staffRequest \in [Requests -> StaffRequest]
  BY DEF StaffTypeOK
<1>1. ASSUME NEW r \in Requests, NEW op \in StaffAction, NEW user \in Users \cup {NULL},
             BeginStaff(r, op, user)
      PROVE  StaffInv'
  <2>. DEFINE q == [op |-> op, row |-> member, user |-> user]
  <2>1. /\ staffRequest' = [staffRequest EXCEPT ![r] = q]
        /\ UNCHANGED <<member, staffAudit, staffRaced>>
    BY <1>1 DEF BeginStaff
  <2>2. q \in StaffRequest
    BY <1>0 DEF StaffRequest
  <2>3. StaffChecked(q)
    BY <1>1 DEF StaffChecked, BeginStaff, StaffAdmits, TokenHolds
  <2>. HIDE DEF q
  <2>4. StaffTypeOK'
    BY <2>1, <2>2 DEF StaffTypeOK
  <2>5. \A s \in Requests : staffRequest'[s] # StaffIdle => StaffChecked(staffRequest'[s])
    BY <1>0, <2>1, <2>3
  <2>6. StaffSettled' /\ StaffOrderStands'
    BY <2>1 DEF StaffSettled, StaffOrderStands, Done
  <2>. QED  BY <2>4, <2>5, <2>6 DEF StaffChecked
<1>2. ASSUME NEW r \in Requests, FailStaff(r)
      PROVE  StaffInv'
  <2>1. /\ staffRequest' = [staffRequest EXCEPT ![r] = StaffIdle]
        /\ UNCHANGED <<member, staffAudit, staffRaced>>
    BY <1>2 DEF FailStaff
  <2>2. StaffTypeOK'
    BY <2>1 DEF StaffTypeOK, StaffRequest
  <2>3. \A s \in Requests : staffRequest'[s] # StaffIdle => StaffChecked(staffRequest'[s])
    BY <1>0, <2>1
  <2>4. StaffSettled' /\ StaffOrderStands'
    BY <2>1 DEF StaffSettled, StaffOrderStands, Done
  <2>. QED  BY <2>2, <2>3, <2>4 DEF StaffChecked
<1>3. ASSUME NEW r \in Requests, NEW new \in Member, NEW status \in StaffStatus,
             staffRequest[r].op # "Idle", Records(r, new, status),
             staffRequest[r].op = "STATUS_CHANGED" => new.status = status,
             staffRequest[r].op \in {"STATUS_CHANGED", "INVITE_ACCEPTED"}
               => new.status \notin {"NONE", "INVITED"},
             staffRequest[r].op \notin {"STATUS_CHANGED", "INVITE_ACCEPTED"}
               => new.status = member.status \/ member.status = "NONE",
             staffRequest[r].op = "INVITE_ACCEPTED" => new.user # NULL,
             staffRequest[r].op # "INVITE_ACCEPTED" => new.user = member.user
      PROVE  StaffInv'
  <2>. DEFINE q == staffRequest[r]
              n == Len(staffAudit) + 1
  <2>1. /\ StaffTypeOK'
        /\ \A i \in DOMAIN staffAudit : i # n /\ i <= n /\ staffAudit'[i] = staffAudit[i]
        /\ n \in Nat /\ staffAudit'[n] = [action |-> q.op, status |-> status]
        /\ \A action : Done(action)' = IF action = q.op THEN Done(action) \cup {n} ELSE Done(action)
    <3>. HIDE DEF StaffInv
    <3>. QED  BY <1>3, RecordsLast, Zenon DEF StaffInv
  <2>2. /\ member' = new /\ staffRaced' = (staffRaced \/ member # q.row)
        /\ staffRequest' = [staffRequest EXCEPT ![r] = StaffIdle]
    BY <1>3 DEF Records
  <2>3. \A s \in Requests : staffRequest'[s] # StaffIdle => StaffChecked(staffRequest[s])'
    BY <1>0, <2>2 DEF StaffChecked
  <2>4. StaffChecked(q)
    BY <1>3, StaffRequestType
  <2>5. q.op = "INVITE_ACCEPTED" /\ ~staffRaced' => member.status = "INVITED" /\ ~staffRaced
    BY <2>2, <2>4 DEF StaffChecked
  <2>6. \A action : Done(action) \subseteq DOMAIN staffAudit
    BY DEF Done
  <2>. HIDE DEF q, n
  <2>7. StaffSettled'
    <3>. SUFFICES ASSUME ~staffRaced', Done("INVITE_ACCEPTED")' \cup Done("STATUS_CHANGED")' # {}
                  PROVE  new.status \notin {"NONE", "INVITED"}
      BY <2>2 DEF StaffSettled
    <3>1. CASE q.op \in {"STATUS_CHANGED", "INVITE_ACCEPTED"}
      BY <1>3, <3>1 DEF q
    <3>2. CASE q.op \notin {"STATUS_CHANGED", "INVITE_ACCEPTED"}
      <4>1. member.status \notin {"NONE", "INVITED"}
        BY <2>1, <2>2, <3>2 DEF StaffSettled
      <4>. QED  BY <1>3, <3>2, <4>1 DEF q
    <3>. QED  BY <3>1, <3>2
  <2>8. StaffOrderStands'
    <3>. SUFFICES ASSUME ~staffRaced' PROVE StaffOrderStands'
      BY DEF StaffOrderStands
    <3>1. ~staffRaced
      BY <2>2
    <3>2. ASSUME NEW i \in Done("STATUS_CHANGED")',
                 \A j \in Done("STATUS_CHANGED")' : j <= i
          PROVE  new.status = staffAudit'[i].status
      <4>1. CASE q.op = "STATUS_CHANGED"
        <5>1. n \in Done("STATUS_CHANGED")'
          BY <2>1, <4>1
        <5>2. n <= i /\ i <= n
          BY <2>1, <2>6, <3>2, <5>1
        <5>3. i \in Nat
          BY <2>1, <2>6, <4>1 DEF StaffTypeOK
        <5>4. i = n
          BY <2>1, <5>2, <5>3
        <5>. QED  BY <1>3, <2>1, <4>1, <5>4 DEF q
      <4>2. CASE q.op # "STATUS_CHANGED"
        <5>1. i \in Done("STATUS_CHANGED") /\ \A j \in Done("STATUS_CHANGED") : j <= i
          BY <2>1, <3>2, <4>2
        <5>2. member.status = staffAudit[i].status
          BY <3>1, <5>1 DEF StaffOrderStands
        <5>3. member.status \notin {"NONE", "INVITED"}
          BY <3>1, <5>1 DEF StaffSettled
        <5>4. new.status = member.status
          BY <1>3, <2>5, <4>2, <5>3 DEF q
        <5>. QED  BY <2>1, <2>6, <5>1, <5>2, <5>4
      <4>. QED  BY <4>1, <4>2
    <3>3. CASE q.op = "INVITE_ACCEPTED"
      <4>1. Done("INVITE_ACCEPTED") = {}
        BY <2>5, <3>3 DEF StaffSettled
      <4>2. Done("INVITE_ACCEPTED")' = {n}
        BY <2>1, <3>3, <4>1
      <4>. QED  BY <1>3, <2>2, <3>2, <3>3, <4>2 DEF StaffOrderStands, q
    <3>4. CASE q.op # "INVITE_ACCEPTED"
      <4>1. Done("INVITE_ACCEPTED")' = Done("INVITE_ACCEPTED")
        BY <2>1, <3>4
      <4>2. /\ \A i, j \in Done("INVITE_ACCEPTED") : i = j
            /\ member.user # NULL <=> Done("INVITE_ACCEPTED") # {}
        BY <3>1 DEF StaffOrderStands
      <4>3. new.user = member.user
        BY <1>3, <3>4 DEF q
      <4>. QED  BY <2>2, <3>2, <4>1, <4>2, <4>3 DEF StaffOrderStands
    <3>. QED  BY <3>3, <3>4
  <2>. QED  BY <2>1, <2>3, <2>7, <2>8
<1>4. ASSUME NEW r \in Requests, Invite(r)
      PROVE  StaffInv'
  <2>. DEFINE new == [member EXCEPT !.status = "INVITED", !.token = NewToken]
  <2>1. /\ staffRequest[r].op = "INVITED" /\ member.status = "NONE"
        /\ Records(r, new, "INVITED")
    BY <1>4 DEF Invite
  <2>2. new \in Member /\ new.user = member.user
    BY <1>0, NewTokenType DEF Member, StaffStatus
  <2>. QED  BY <1>3, <2>1, <2>2 DEF StaffStatus
<1>5. ASSUME NEW r \in Requests, UpdateStaff(r)
      PROVE  StaffInv'
  BY <1>0, <1>3, <1>5 DEF UpdateStaff, StaffStatus
<1>6. ASSUME NEW r \in Requests, NEW status \in StaffStatus, SetStatus(r, status)
      PROVE  StaffInv'
  <2>. DEFINE new == [member EXCEPT !.status = status]
  <2>1. new \in Member /\ new.user = member.user /\ new.status = status
    BY <1>0 DEF Member
  <2>. QED  BY <1>3, <1>6, <2>1 DEF SetStatus
<1>7. ASSUME NEW r \in Requests, Resend(r)
      PROVE  StaffInv'
  <2>. DEFINE new == [member EXCEPT !.token = NewToken]
  <2>1. new \in Member /\ new.user = member.user /\ new.status = member.status
    BY <1>0, NewTokenType DEF Member
  <2>. QED  BY <1>3, <1>7, <2>1 DEF Resend, StaffStatus
<1>8. ASSUME NEW r \in Requests, Accept(r)
      PROVE  StaffInv'
  <2>. DEFINE new == [status |-> "ACTIVE", token |-> 0, user |-> staffRequest[r].user]
  <2>1. /\ staffRequest[r].op = "INVITE_ACCEPTED" /\ Records(r, new, "ACTIVE")
    BY <1>8 DEF Accept
  <2>2. /\ staffRequest[r] # StaffIdle /\ staffRequest[r].user \in Users \cup {NULL}
    BY <2>1, StaffRequestType
  <2>3. new \in Member /\ new.user # NULL
    BY <2>1, <2>2 DEF Member, StaffStatus, StaffChecked
  <2>. QED  BY <1>3, <2>1, <2>3 DEF StaffStatus
<1>. QED  BY <1>1, <1>2, <1>4, <1>5, <1>6, <1>7, <1>8 DEF StaffStep, StaffNext

LEMMA StaffHolds == Spec => []StaffInv
<1>1. Init => StaffInv
  BY StaffAtFirst DEF Init
<1>2. StaffInv /\ [Next]_vars => StaffInv'
  <2>1. StaffInv /\ UNCHANGED staffVars => StaffInv'
    BY DEF StaffInv, staffVars, StaffTypeOK, StaffChecked, StaffSettled, StaffOrderStands, Done
  <2>. QED  BY <2>1, StaffSteps, StaffStepKeeps
<1>. QED  BY <1>1, <1>2, PTL DEF Spec

\* StaffService: as long as no request writes over a row it has not read, the
\* last status the seller set stands, a revoked invitation is not accepted, and
\* the person of the membership is the one who accepted, once.
THEOREM StaffOrdersStand == Spec => []StaffOrderStands
<1>1. StaffInv => StaffOrderStands
  BY DEF StaffInv
<1>. QED  BY <1>1, StaffHolds, PTL

-----------------------------------------------------------------------------
(* The tickets *)

TicketStep ==
  \/ CreateTicket
  \/ \E status \in TicketStatus \ {"NONE"}, remark \in BOOLEAN : AdminUpdateTicket(status, remark)
  \/ \E r \in Requests : TicketNext(r) \/ \E role \in Role : BeginReply(r, role)

LEMMA TicketSteps == [Next]_vars => TicketStep \/ UNCHANGED ticketVars
<1>. SUFFICES ASSUME [Next]_vars PROVE TicketStep \/ UNCHANGED ticketVars
  OBVIOUS
<1>1. ASSUME NEW r \in Requests, BeginAtTickets(r) PROVE TicketStep
  BY <1>1 DEF BeginAtTickets, TicketStep, Role
<1>2. ASSUME NEW r \in Requests, Begin(r) PROVE TicketStep \/ UNCHANGED ticketVars
  BY <1>1, <1>2 DEF Begin, AtStaff
<1>3. ASSUME NEW r \in Requests, TicketNext(r) PROVE TicketStep
  BY <1>3 DEF TicketStep
<1>4. CASE Next
  BY <1>2, <1>3, <1>4 DEF Next, AtGate, Pass, AtStaff, AtNotices, AtLists
<1>. QED  BY <1>4 DEF vars

\* Ids tell messages apart, and are no more than were given.
TicketIds ==
  /\ \A m, n \in messages : m.id = n.id => m = n
  /\ \A m \in messages : m.id <= MaxMessages + 1

\* A message that is not committed is the one its reply has sent, later than
\* all the committed ones.
TicketSent ==
  /\ \A r \in Requests : ticketRequest[r].op = "Sent" =>
       \E m \in messages : m.in = r /\ m.sender = ticketRequest[r].role
  /\ \A m \in messages : m.in # NULL =>
       /\ ticketRequest[m.in].op = "Sent" /\ m.sender = ticketRequest[m.in].role
       /\ \A n \in messages : (n.in = NULL => n.id < m.id) /\ (n.in = m.in => n = m)

\* Before the ticket there is nothing; from it on there is a message to see.
TicketBegun ==
  /\ ticket.status = "NONE" =>
       messages = {} /\ standing = "NONE" /\ \A r \in Requests : ticketRequest[r] = ReplyIdle
  /\ ticket.status # "NONE" => Seen # {}

TicketInv ==
  /\ TicketTypeOK
  /\ TicketIds
  /\ TicketSent
  /\ TicketBegun
  /\ TicketTellsItsState

LEMMA TicketAtFirst == TicketInit => TicketInv
<1>. SUFFICES ASSUME TicketInit PROVE TicketInv
  OBVIOUS
<1>1. TicketTypeOK
  BY DEF TicketInit, TicketTypeOK, Ticket, TicketStatus, Reply
<1>2. \A r \in Requests : ticketRequest[r] = ReplyIdle
  BY DEF TicketInit
<1>. QED  BY <1>1, <1>2 DEF TicketInit, TicketInv, TicketIds, TicketSent, TicketBegun,
                            TicketTellsItsState, ReplyIdle

\* A set of numbers with a bound has a greatest one.
LEMMA Greatest ==
  ASSUME NEW bound \in Nat, NEW S \in SUBSET (0..bound), S # {}
  PROVE  Max(S) \in S /\ \A n \in S : n <= Max(S)
<1>. DEFINE Below == {bound - n : n \in S}
<1>1. Below # {}
  OBVIOUS
<1>2. \A b \in Below : b \in Nat
  OBVIOUS
<1>3. PICK least \in Below : \A b \in Below : ~(<<b, least>> \in OpToRel(<, Nat))
  <2>. HIDE DEF Below
  <2>1. Below \subseteq Nat
    BY <1>2
  <2>. QED  BY <1>1, <2>1, NatLessThanWellFounded, WFMin
<1>4. PICK m \in S : least = bound - m
  OBVIOUS
<1>5. ASSUME NEW n \in S PROVE m >= n
  <2>1. bound - n \in Nat /\ bound - m \in Nat /\ bound - n \in Below
    BY <1>2
  <2>2. ~(bound - n < bound - m)
    BY <1>3, <1>4, <2>1 DEF OpToRel
  <2>. QED  BY <2>2
<1>6. Max(S) \in S /\ \A n \in S : Max(S) >= n
  BY <1>5 DEF Max
<1>7. Max(S) \in 0..bound /\ \A n \in S : n \in 0..bound
  BY <1>6
<1>. QED  BY <1>6, <1>7

LEMMA NextIdIsLater ==
  ASSUME TicketTypeOK, TicketIds, messages # {}
  PROVE  NextId \in Nat /\ \A m \in messages : m.id < NextId
<1>. DEFINE ids == {m.id : m \in messages}
<1>1. MaxMessages + 1 \in Nat
  BY TicketAssumption
<1>2. \A m \in messages : m.id \in 0..(MaxMessages + 1)
  BY TicketAssumption DEF TicketTypeOK, TicketIds, Message
<1>3. ids \in SUBSET (0..(MaxMessages + 1)) /\ ids # {}
  BY <1>2
<1>. HIDE DEF ids
<1>4. Max(ids) \in ids /\ \A n \in ids : n <= Max(ids)
  BY <1>1, <1>3, Greatest
<1>5. NextId = 1 + Max(ids) /\ Max(ids) \in Nat
  BY <1>3, <1>4 DEF NextId, ids
<1>6. \A m \in messages : m.id \in ids /\ m.id \in Nat
  BY <1>2 DEF ids
<1>7. ASSUME NEW m \in messages PROVE m.id < NextId
  BY <1>4, <1>5, <1>6
<1>. QED  BY <1>5, <1>7

LEMMA CreateTicketKeeps == TicketInv /\ CreateTicket => TicketInv'
<1>. SUFFICES ASSUME TicketInv, CreateTicket PROVE TicketInv'
  OBVIOUS
<1>. DEFINE first == [id |-> 1, sender |-> "SELLER", in |-> NULL]
<1>1. /\ ticket.status = "NONE" /\ ticket' = [ticket EXCEPT !.status = "OPEN"] /\ messages' = {first}
      /\ UNCHANGED <<ticketRequest, orders, standing, ticketRaced>>
  BY DEF CreateTicket
<1>2. TicketTypeOK /\ ticket \in Ticket /\ \A r \in Requests : ticketRequest[r] = ReplyIdle
  BY <1>1 DEF TicketInv, TicketTypeOK, TicketBegun
<1>3. first \in Message /\ first.id = 1 /\ first.in = NULL /\ first.sender = "SELLER"
  BY DEF Message, Role
<1>. HIDE DEF first
<1>4. ticket' \in Ticket /\ ticket'.status = "OPEN"
  BY <1>1, <1>2 DEF Ticket, TicketStatus
<1>5. TicketTypeOK'
  BY <1>1, <1>2, <1>3, <1>4 DEF TicketTypeOK
<1>6. TicketIds'
  BY <1>1, <1>3, TicketAssumption DEF TicketIds
<1>7. TicketSent' /\ TicketBegun'
  BY <1>1, <1>2, <1>3, <1>4 DEF TicketSent, TicketBegun, ReplyIdle, Seen
<1>8. TicketTellsItsState'
  <2>1. standing = "NONE"
    BY <1>1 DEF TicketInv, TicketBegun
  <2>2. \A m \in Seen' : m = first
    BY <1>1 DEF Seen
  <2>3. first \in Seen'
    BY <1>1, <1>3 DEF Seen
  <2>. QED  BY <1>1, <1>3, <1>4, <2>1, <2>2, <2>3 DEF TicketTellsItsState, ReplyStatus
<1>. QED  BY <1>5, <1>6, <1>7, <1>8 DEF TicketInv

LEMMA BeginReplyKeeps ==
  ASSUME TicketInv, NEW r \in Requests, NEW role \in Role, BeginReply(r, role)
  PROVE  TicketInv'
<1>. USE DEF TicketInv
<1>1. /\ ticketRequest[r] = ReplyIdle /\ ticket.status # "NONE"
      /\ ticketRequest' = [ticketRequest EXCEPT ![r] = [op |-> "Read", role |-> role]]
      /\ UNCHANGED <<ticket, messages, orders, standing, ticketRaced>>
  BY DEF BeginReply
<1>2. TicketTypeOK'
  BY <1>1 DEF TicketTypeOK, Reply
<1>3. /\ ticketRequest[r].op = "Idle" /\ ticketRequest'[r].op = "Read"
      /\ \A s \in Requests \ {r} : ticketRequest'[s] = ticketRequest[s]
  BY <1>1 DEF ReplyIdle, TicketTypeOK
<1>4. \A m \in messages : m.in # NULL => m.in \in Requests
  BY DEF TicketTypeOK, Message
<1>5. TicketSent'
  BY <1>1, <1>3, <1>4 DEF TicketSent
<1>. QED  BY <1>1, <1>2, <1>5 DEF TicketIds, TicketBegun, TicketTellsItsState, Seen

LEMMA AddMessageKeeps ==
  ASSUME TicketInv, NEW r \in Requests, AddMessage(r)
  PROVE  TicketInv'
<1>. USE DEF TicketInv
<1>. DEFINE q == ticketRequest[r]
            new == [id |-> NextId, sender |-> q.role, in |-> r]
<1>1. /\ q.op = "Read" /\ NextId <= MaxMessages /\ messages' = messages \cup {new}
      /\ ticketRequest' = [ticketRequest EXCEPT ![r].op = "Sent"]
      /\ UNCHANGED <<ticket, orders, standing, ticketRaced>>
  BY DEF AddMessage
<1>2. q # ReplyIdle /\ q.role \in Role /\ ticketRequest \in [Requests -> Reply]
  BY <1>1 DEF TicketTypeOK, Reply, ReplyIdle
<1>3. messages # {} /\ ticket.status # "NONE"
  BY <1>2 DEF TicketBegun, Seen
<1>4. NextId \in Nat /\ \A m \in messages : m.id < NextId
  BY <1>3, NextIdIsLater
<1>5. /\ new \in Message /\ new.id = NextId /\ new.in = r /\ new.sender = q.role
      /\ r # NULL
  BY <1>2, <1>4, SlotsAssumption DEF Message
<1>6. \A m \in messages : m.id \in Nat /\ (m.in # NULL => m.in \in Requests)
  BY DEF TicketTypeOK, Message
<1>. HIDE DEF new
<1>7. /\ ticketRequest' \in [Requests -> Reply]
      /\ ticketRequest'[r].op = "Sent" /\ ticketRequest'[r].role = q.role
      /\ \A s \in Requests \ {r} : ticketRequest'[s] = ticketRequest[s]
  BY <1>1, <1>2 DEF Reply, ReplyIdle
<1>8. TicketTypeOK'
  BY <1>1, <1>5, <1>7 DEF TicketTypeOK
<1>9. TicketIds'
  BY <1>1, <1>4, <1>5, <1>6, TicketAssumption DEF TicketIds
<1>10. \A m \in messages : m.in # r
  BY <1>1, <1>5 DEF TicketSent
<1>11. TicketSent'
  <2>1. ASSUME NEW s \in Requests, ticketRequest'[s].op = "Sent"
        PROVE  \E m \in messages' : m.in = s /\ m.sender = ticketRequest'[s].role
    BY <1>1, <1>5, <1>7, <2>1 DEF TicketSent
  <2>2. ASSUME NEW m \in messages, m.in # NULL
        PROVE  /\ ticketRequest'[m.in].op = "Sent" /\ m.sender = ticketRequest'[m.in].role
               /\ \A n \in messages' : (n.in = NULL => n.id < m.id) /\ (n.in = m.in => n = m)
    BY <1>1, <1>5, <1>6, <1>7, <1>10, <2>2 DEF TicketSent
  <2>3. /\ ticketRequest'[new.in].op = "Sent" /\ new.sender = ticketRequest'[new.in].role
        /\ \A n \in messages' : (n.in = NULL => n.id < new.id) /\ (n.in = new.in => n = new)
    BY <1>1, <1>4, <1>5, <1>7, <1>10
  <2>. QED  BY <1>1, <2>1, <2>2, <2>3 DEF TicketSent
<1>12. Seen' = Seen
  BY <1>1, <1>5 DEF Seen
<1>13. TicketBegun'
  BY <1>1, <1>3, <1>12 DEF TicketBegun
<1>14. TicketTellsItsState'
  BY <1>1, <1>12 DEF TicketTellsItsState
<1>. QED  BY <1>8, <1>9, <1>11, <1>13, <1>14

LEMMA RollBackKeeps ==
  ASSUME TicketInv, NEW r \in Requests, RollBackReply(r)
  PROVE  TicketInv'
<1>. USE DEF TicketInv
<1>1. /\ ticketRequest[r] # ReplyIdle /\ messages' = {m \in messages : m.in # r}
      /\ ticketRequest' = [ticketRequest EXCEPT ![r] = ReplyIdle]
      /\ UNCHANGED <<ticket, orders, standing, ticketRaced>>
  BY DEF RollBackReply
<1>2. TicketTypeOK'
  BY <1>1 DEF TicketTypeOK, Reply
<1>3. /\ ticketRequest'[r].op = "Idle"
      /\ \A s \in Requests \ {r} : ticketRequest'[s] = ticketRequest[s]
  BY <1>1 DEF ReplyIdle, TicketTypeOK
<1>4. \A m \in messages : m.in # NULL => m.in \in Requests
  BY DEF TicketTypeOK, Message
<1>5. TicketSent'
  BY <1>1, <1>3, <1>4 DEF TicketSent
<1>6. Seen' = Seen
  BY <1>1, SlotsAssumption DEF Seen
<1>7. ticket.status # "NONE"
  BY <1>1 DEF TicketBegun
<1>. QED  BY <1>1, <1>2, <1>5, <1>6, <1>7 DEF TicketIds, TicketBegun, TicketTellsItsState

LEMMA AdminUpdateKeeps ==
  ASSUME TicketInv, NEW status \in TicketStatus \ {"NONE"}, NEW remark \in BOOLEAN,
         AdminUpdateTicket(status, remark)
  PROVE  TicketInv'
<1>. USE DEF TicketInv
<1>1. /\ ticket.status # "NONE" /\ ticket' = [status |-> status, resolved |-> status = "RESOLVED"]
      /\ orders' = orders + 1 /\ standing' = status
      /\ UNCHANGED <<messages, ticketRequest, ticketRaced>>
  BY DEF AdminUpdateTicket
<1>2. ticket' \in Ticket /\ ticket'.status = status
  BY <1>1 DEF Ticket
<1>3. TicketTypeOK'
  BY <1>1, <1>2 DEF TicketTypeOK
<1>. QED  BY <1>1, <1>2, <1>3 DEF TicketIds, TicketSent, TicketBegun, TicketTellsItsState, Seen

\* The reply that commits holds the lock alone: its message is the last one.
LEMMA CommitReplyKeeps ==
  ASSUME TicketInv, NEW r \in Requests, CommitReply(r)
  PROVE  TicketInv'
<1>. USE DEF TicketInv
<1>. DEFINE q == ticketRequest[r]
            Committed(m) == IF m.in = r THEN [m EXCEPT !.in = NULL] ELSE m
<1>1. /\ q.op = "Sent" /\ Holding \subseteq {r}
      /\ ticket' = [ticket EXCEPT !.status = ReplyStatus(q.role)]
      /\ messages' = {Committed(m) : m \in messages}
      /\ standing' = IF standing = "CLOSED" THEN standing ELSE "NONE"
      /\ ticketRaced' = (ticketRaced \/ ticket.status = "CLOSED")
      /\ ticketRequest' = [ticketRequest EXCEPT ![r] = ReplyIdle] /\ orders' = orders
  BY DEF CommitReply
<1>2. \A m \in messages : m \in Message /\ m.id \in Nat /\ (m.in # NULL => m.in \in Requests)
  BY DEF TicketTypeOK, Message
<1>3. ASSUME NEW m \in messages
      PROVE  /\ m.in \in {NULL, r}
             /\ Committed(m) \in Message /\ Committed(m).in = NULL
             /\ Committed(m).id = m.id /\ Committed(m).sender = m.sender
  <2>1. m.in # NULL => m.in \in Holding
    BY <1>2 DEF TicketSent, Holding
  <2>2. m.in \in {NULL, r}
    BY <1>1, <2>1
  <2>. QED  BY <1>2, <2>2 DEF Message
<1>. HIDE DEF Committed
<1>4. PICK last \in messages : last.in = r /\ last.sender = q.role
  BY <1>1 DEF TicketSent
<1>5. \A m \in messages : m.id <= last.id
  <2>. TAKE m \in messages
  <2>1. last.in # NULL
    BY <1>4, SlotsAssumption
  <2>2. m.in = NULL => m.id < last.id
    BY <1>4, <2>1 DEF TicketSent
  <2>3. m.in = r => m = last
    BY <1>4, <2>1 DEF TicketSent
  <2>4. m.in = NULL \/ m.in = r
    BY <1>3
  <2>. QED  BY <1>2, <2>2, <2>3, <2>4
<1>6. \A m \in messages' : m \in Message /\ m.in = NULL /\ \E n \in messages : m = Committed(n)
  BY <1>1, <1>3
<1>7. /\ Committed(last) \in messages'
      /\ Committed(last).id = last.id /\ Committed(last).sender = q.role
  BY <1>1, <1>3, <1>4
<1>8. \A m \in messages' : m.id <= Committed(last).id
  BY <1>3, <1>5, <1>6, <1>7
<1>9. TicketIds'
  <2>1. \A m \in messages' : m.id <= MaxMessages + 1
    BY <1>3, <1>6 DEF TicketIds
  <2>2. ASSUME NEW m \in messages, NEW n \in messages, Committed(m).id = Committed(n).id
        PROVE  Committed(m) = Committed(n)
    BY <1>3, <2>2 DEF TicketIds
  <2>. QED  BY <1>6, <2>1, <2>2 DEF TicketIds
<1>10. Seen' = messages'
  BY <1>6 DEF Seen
<1>11. q # ReplyIdle /\ q.role \in Role /\ ticketRequest \in [Requests -> Reply]
  BY <1>1 DEF TicketTypeOK, Reply, ReplyIdle
<1>12. ticket.status # "NONE" /\ ticket \in Ticket
  BY <1>11 DEF TicketBegun, TicketTypeOK
<1>13. /\ ticket' \in Ticket /\ ticket'.status = ReplyStatus(q.role)
       /\ ticket'.status # "NONE"
  BY <1>1, <1>12 DEF Ticket, TicketStatus, ReplyStatus
<1>14. TicketTypeOK'
  <2>1. standing' \in TicketStatus /\ orders' \in Nat /\ ticketRaced' \in BOOLEAN
    BY <1>1 DEF TicketTypeOK, TicketStatus
  <2>2. ticketRequest' \in [Requests -> Reply] /\ messages' \subseteq Message
    BY <1>1, <1>6, <1>11 DEF Reply
  <2>. QED  BY <1>13, <2>1, <2>2 DEF TicketTypeOK
<1>15. TicketSent'
  <2>1. \A s \in Requests : ticketRequest'[s].op # "Sent"
    <3>1. \A s \in Requests : ticketRequest[s].op = "Sent" => s = r
      BY <1>1 DEF Holding
    <3>. QED  BY <1>1, <1>11, <3>1 DEF ReplyIdle
  <2>. QED  BY <1>6, <2>1 DEF TicketSent
<1>16. TicketBegun'
  BY <1>7, <1>10, <1>13 DEF TicketBegun
<1>17. TicketTellsItsState'
  <2>1. ~ticketRaced' => standing' = "NONE"
    BY <1>1, <1>12 DEF TicketTellsItsState
  <2>. QED  BY <1>7, <1>8, <1>10, <1>13, <2>1 DEF TicketTellsItsState
<1>. QED  BY <1>9, <1>14, <1>15, <1>16, <1>17

LEMMA TicketHolds == Spec => []TicketInv
<1>1. Init => TicketInv
  BY TicketAtFirst DEF Init
<1>2. TicketInv /\ [Next]_vars => TicketInv'
  <2>1. TicketInv /\ UNCHANGED ticketVars => TicketInv'
    BY DEF TicketInv, ticketVars, TicketTypeOK, TicketIds, TicketSent, TicketBegun,
           TicketTellsItsState, Seen
  <2>2. TicketInv /\ TicketStep => TicketInv'
    BY CreateTicketKeeps, BeginReplyKeeps, AddMessageKeeps, RollBackKeeps, CommitReplyKeeps,
       AdminUpdateKeeps DEF TicketStep, TicketNext
  <2>. QED  BY <2>1, <2>2, TicketSteps
<1>. QED  BY <1>1, <1>2, PTL DEF Spec

\* SupportService.reply, adminUpdate: the status of a ticket is the one an
\* administrator ordered, or tells who spoke last, and a closed ticket stays
\* so unless a reply had been let through before.
THEOREM TicketsTellTheirState == Spec => []TicketTellsItsState
<1>1. TicketInv => TicketTellsItsState
  BY DEF TicketInv
<1>. QED  BY <1>1, TicketHolds, PTL

-----------------------------------------------------------------------------
(* The notifications *)

NoticeStep ==
  \/ \E recipient \in Recipients : MarkRead(recipient)
  \/ \E r \in Requests :
       \/ NoticeNext(r)
       \/ \E recipient \in Recipients, code \in Codes, key \in Key :
            BeginNotice(r, recipient, code, key)
       \/ \E code \in Codes, active \in BOOLEAN, text \in Texts :
            \/ BeginTemplate(r, code, active, text)
            \/ \E i \in DOMAIN templates : BeginEdit(r, i, code, active, text)

LEMMA NoticeSteps == [Next]_vars => NoticeStep \/ UNCHANGED noticeVars
<1>. SUFFICES ASSUME [Next]_vars PROVE NoticeStep \/ UNCHANGED noticeVars
  OBVIOUS
<1>1. ASSUME NEW r \in Requests, BeginAtNotices(r) PROVE NoticeStep
  BY <1>1 DEF BeginAtNotices, NoticeStep
<1>2. ASSUME NEW r \in Requests, Begin(r) PROVE UNCHANGED noticeVars
  BY <1>2 DEF Begin, AtStaff, AtTickets
<1>3. ASSUME NEW r \in Requests, NoticeNext(r) PROVE NoticeStep
  BY <1>3 DEF NoticeStep
<1>4. ASSUME NEW recipient \in Recipients, MarkRead(recipient) PROVE NoticeStep
  BY <1>4 DEF NoticeStep
<1>5. CASE Next
  BY <1>1, <1>2, <1>3, <1>4, <1>5 DEF Next, AtGate, Pass, AtStaff, AtTickets, AtNotices, AtLists
<1>. QED  BY <1>5 DEF vars

\* A template in use has said it.
Said(notice) ==
  \E p \in printed : p.row.active /\ p.row.code = notice.code /\ p.row.text = notice.text

\* What has been printed, and what each template says now.
PrintedInOrder ==
  /\ \A p \in printed : p.id \in DOMAIN templates
  /\ \A i \in DOMAIN templates : [id |-> i, row |-> templates[i]] \in printed
  /\ ~templatesRaced => \A p \in printed : p.row.version <= templates[p.id].version

\* What a request has prepared from the template it read.
NoticeRead(q) ==
  /\ q.op = "Make" => Said(q.notice)
  /\ q.op = "Edit" => q.id \in DOMAIN templates /\ q.new.version = q.row.version + 1

NoticeInv ==
  /\ NoticeTypeOK
  /\ PrintedInOrder
  /\ \A r \in Requests : NoticeRead(noticeRequest[r])
  /\ NoticesAsPrinted

LEMMA SeedType == Seed \in Template
BY NoticeAssumption DEF Seed, Template

LEMMA NoticeAtFirst == NoticeInit => NoticeInv
<1>. SUFFICES ASSUME NoticeInit PROVE NoticeInv
  OBVIOUS
<1>1. templates = <<Seed>> /\ printed = {[id |-> 1, row |-> Seed]} /\ notices = <<>>
  BY DEF NoticeInit
<1>2. /\ templates \in Seq(Template) /\ notices \in Seq(Notice) /\ printed \subseteq [id : Nat, row : Template]
      /\ DOMAIN templates = {1} /\ templates[1] = Seed /\ DOMAIN notices = {}
  BY <1>1, SeedType
<1>3. noticeRequest \in [Requests -> NoticeRequest] /\ edits \in Nat /\ templatesRaced \in BOOLEAN
  BY DEF NoticeInit, NoticeRequest
<1>4. \A r \in Requests : NoticeRead(noticeRequest[r])
  BY DEF NoticeInit, NoticeRead, NoticeIdle
<1>5. PrintedInOrder
  <2>1. Seed.version \in Nat
    BY SeedType DEF Template
  <2>. QED  BY <1>1, <1>2, <2>1 DEF PrintedInOrder
<1>6. NoticesAsPrinted
  BY <1>1, <1>2 DEF NoticesAsPrinted
<1>. QED  BY <1>2, <1>3, <1>4, <1>5, <1>6 DEF NoticeInv, NoticeTypeOK

LEMMA NoticeRequestType ==
  ASSUME NoticeTypeOK, NEW r \in Requests
  PROVE  LET q == noticeRequest[r] IN
         /\ q.op = "Make" => q.notice \in Notice
         /\ q.op = "Create" => q.row \in Template
         /\ q.op = "Edit" => q.id \in Nat /\ q.row \in Template /\ q.new \in Template
<1>1. noticeRequest[r] \in NoticeRequest
  BY DEF NoticeTypeOK
<1>. QED  BY <1>1 DEF NoticeRequest, NoticeIdle

\* A request begins: it reads, and prepares what it says.
LEMMA ReadsKeeps ==
  ASSUME NoticeInv, NEW r \in Requests, NEW q \in NoticeRequest, NoticeRead(q), Reads(r, q)
  PROVE  NoticeInv'
<1>. USE DEF NoticeInv
<1>1. /\ noticeRequest' = [noticeRequest EXCEPT ![r] = q]
      /\ UNCHANGED <<templates, notices, edits, printed, templatesRaced>>
  BY DEF Reads
<1>2. NoticeTypeOK'
  BY <1>1 DEF NoticeTypeOK
<1>3. \A s \in Requests : NoticeRead(noticeRequest'[s])
  BY <1>1 DEF NoticeTypeOK
<1>4. \A s \in Requests : NoticeRead(noticeRequest[s])'
  BY <1>1, <1>3 DEF NoticeRead, Said
<1>. QED  BY <1>1, <1>2, <1>4 DEF PrintedInOrder, NoticesAsPrinted

LEMMA BeginningKeeps ==
  ASSUME NoticeInv, NEW r \in Requests
  PROVE  /\ \A recipient \in Recipients, code \in Codes, key \in Key :
              BeginNotice(r, recipient, code, key) => NoticeInv'
         /\ \A code \in Codes, active \in BOOLEAN, text \in Texts :
              /\ BeginTemplate(r, code, active, text) => NoticeInv'
              /\ \A i \in DOMAIN templates : BeginEdit(r, i, code, active, text) => NoticeInv'
<1>. USE DEF NoticeInv
<1>0. \A i \in DOMAIN templates : templates[i] \in Template /\ i \in Nat
  BY DEF NoticeTypeOK
<1>1. ASSUME NEW recipient \in Recipients, NEW code \in Codes, NEW key \in Key,
             BeginNotice(r, recipient, code, key)
      PROVE  NoticeInv'
  <2>1. PICK i \in Active(code) : Reads(r, [op |-> "Make", notice |-> Rendered(i, recipient, key)])
    BY <1>1 DEF BeginNotice
  <2>. DEFINE notice == Rendered(i, recipient, key)
              q == [op |-> "Make", notice |-> notice]
  <2>2. i \in DOMAIN templates /\ templates[i].active
    BY DEF Active
  <2>3. notice \in Notice /\ notice.code = templates[i].code /\ notice.text = templates[i].text
    BY <1>0, <2>2 DEF Rendered, Notice, Template
  <2>4. [id |-> i, row |-> templates[i]] \in printed
    BY <2>2 DEF PrintedInOrder
  <2>5. Said(notice)
    BY <2>2, <2>3, <2>4 DEF Said
  <2>. HIDE DEF notice, NoticeInv
  <2>6. q \in NoticeRequest /\ NoticeRead(q)
    BY <2>3, <2>5 DEF NoticeRequest, NoticeRead
  <2>. QED  BY <2>1, <2>6, ReadsKeeps DEF notice
<1>2. ASSUME NEW code \in Codes, NEW active \in BOOLEAN, NEW text \in Texts,
             BeginTemplate(r, code, active, text)
      PROVE  NoticeInv'
  <2>. DEFINE q == [op |-> "Create",
                    row |-> [code |-> code, active |-> active, version |-> 1, text |-> text]]
  <2>1. q \in NoticeRequest /\ NoticeRead(q)
    BY DEF NoticeRequest, NoticeRead, Template
  <2>2. Reads(r, q)
    BY <1>2 DEF BeginTemplate
  <2>. HIDE DEF q, NoticeInv
  <2>. QED  BY <2>1, <2>2, ReadsKeeps
<1>3. ASSUME NEW code \in Codes, NEW active \in BOOLEAN, NEW text \in Texts,
             NEW i \in DOMAIN templates, BeginEdit(r, i, code, active, text)
      PROVE  NoticeInv'
  <2>. DEFINE new == Edited(templates[i], code, active, text)
              q == [op |-> "Edit", id |-> i, row |-> templates[i], new |-> new]
  <2>1. new \in Template /\ new.version = templates[i].version + 1
    BY <1>0 DEF Edited, Template
  <2>. HIDE DEF new
  <2>2. q \in NoticeRequest /\ NoticeRead(q)
    BY <1>0, <2>1 DEF NoticeRequest, NoticeRead
  <2>3. Reads(r, q)
    BY <1>3 DEF BeginEdit, new
  <2>. HIDE DEF q, NoticeInv
  <2>. QED  BY <2>2, <2>3, ReadsKeeps
<1>. QED  BY <1>1, <1>2, <1>3

\* Requests stay prepared while more is printed and no template goes away.
LEMMA ReadStays ==
  ASSUME NoticeInv, NEW r \in Requests, Settles(r),
         printed \subseteq printed', DOMAIN templates \subseteq DOMAIN templates'
  PROVE  /\ \A s \in Requests : NoticeRead(noticeRequest[s])'
         /\ noticeRequest' \in [Requests -> NoticeRequest]
<1>. USE DEF NoticeInv
<1>1. noticeRequest' = [noticeRequest EXCEPT ![r] = NoticeIdle]
  BY DEF Settles
<1>2. noticeRequest' \in [Requests -> NoticeRequest]
  BY <1>1 DEF NoticeTypeOK, NoticeRequest
<1>3. \A s \in Requests : noticeRequest'[s] = noticeRequest[s] \/ noticeRequest'[s] = NoticeIdle
  BY <1>1 DEF NoticeTypeOK
<1>4. ASSUME NEW s \in Requests PROVE NoticeRead(noticeRequest[s])'
  BY <1>3 DEF NoticeRead, Said, NoticeIdle
<1>. QED  BY <1>2, <1>4

LEMMA MakeNoticeKeeps ==
  ASSUME NoticeInv, NEW r \in Requests, MakeNotice(r)
  PROVE  NoticeInv'
<1>. DEFINE notice == noticeRequest[r].notice
            n == Len(notices) + 1
<1>1. /\ noticeRequest[r].op = "Make"
      /\ notice.key # NULL => \A i \in DOMAIN notices : notices[i].key # notice.key
      /\ notices' = Append(notices, notice) /\ Settles(r)
      /\ UNCHANGED <<templates, edits, printed, templatesRaced>>
  BY DEF MakeNotice
<1>2. notice \in Notice /\ Said(notice)
  BY <1>1, NoticeRequestType DEF NoticeInv, NoticeRead
<1>3. /\ \A s \in Requests : NoticeRead(noticeRequest[s])'
      /\ noticeRequest' \in [Requests -> NoticeRequest]
  BY <1>1, ReadStays
<1>. HIDE DEF notice
<1>. USE DEF NoticeInv
<1>4. /\ notices' \in Seq(Notice) /\ DOMAIN notices' = DOMAIN notices \cup {n}
      /\ notices'[n] = notice /\ \A i \in DOMAIN notices : i # n /\ notices'[i] = notices[i]
  BY <1>1, <1>2 DEF NoticeTypeOK
<1>5. NoticeTypeOK'
  BY <1>1, <1>3, <1>4 DEF NoticeTypeOK
<1>. HIDE DEF n
<1>6. \A i \in DOMAIN notices' : Said(notices'[i])
  BY <1>2, <1>4 DEF NoticesAsPrinted, Said
<1>7. \A i, j \in DOMAIN notices' :
        notices'[i].key = notices'[j].key => i = j \/ notices'[i].key = NULL
  BY <1>1, <1>4 DEF NoticesAsPrinted
<1>8. NoticesAsPrinted'
  BY <1>1, <1>6, <1>7 DEF NoticesAsPrinted, Said
<1>9. PrintedInOrder'
  BY <1>1 DEF PrintedInOrder
<1>. QED  BY <1>3, <1>5, <1>8, <1>9

LEMMA CreateTemplateKeeps ==
  ASSUME NoticeInv, NEW r \in Requests, CreateTemplate(r)
  PROVE  NoticeInv'
<1>. DEFINE row == noticeRequest[r].row
            n == Len(templates) + 1
            new == [id |-> n, row |-> row]
<1>1. /\ noticeRequest[r].op = "Create"
      /\ templates' = Append(templates, row) /\ printed' = printed \cup {new}
      /\ edits' = edits + 1 /\ Settles(r)
      /\ UNCHANGED <<notices, templatesRaced>>
  BY DEF CreateTemplate, Prints
<1>2. row \in Template /\ row.version \in Nat
  BY <1>1, NoticeRequestType DEF NoticeInv, Template
<1>. HIDE DEF row
<1>3. /\ templates' \in Seq(Template) /\ DOMAIN templates' = DOMAIN templates \cup {n}
      /\ n \in Nat /\ templates'[n] = row
      /\ \A i \in DOMAIN templates : i # n /\ templates'[i] = templates[i]
  BY <1>1, <1>2 DEF NoticeInv, NoticeTypeOK
<1>4. new \in [id : Nat, row : Template] /\ new.id = n /\ new.row = row
  BY <1>2, <1>3
<1>. HIDE DEF new, n
<1>5. /\ \A s \in Requests : NoticeRead(noticeRequest[s])'
      /\ noticeRequest' \in [Requests -> NoticeRequest]
  BY <1>1, <1>3, ReadStays
<1>. USE DEF NoticeInv
<1>6. NoticeTypeOK'
  BY <1>1, <1>3, <1>4, <1>5 DEF NoticeTypeOK
<1>7. PrintedInOrder'
  <2>1. \A p \in printed' : p.id \in DOMAIN templates'
    BY <1>1, <1>3, <1>4 DEF PrintedInOrder
  <2>2. \A i \in DOMAIN templates' : [id |-> i, row |-> templates'[i]] \in printed'
    BY <1>1, <1>3 DEF PrintedInOrder, new
  <2>3. ~templatesRaced' => \A p \in printed' : p.row.version <= templates'[p.id].version
    BY <1>1, <1>2, <1>3, <1>4 DEF PrintedInOrder
  <2>. QED  BY <2>1, <2>2, <2>3 DEF PrintedInOrder
<1>8. NoticesAsPrinted'
  <2>1. ~templatesRaced' =>
          \A p, q \in printed' : p.id = q.id /\ p.row.version = q.row.version => p = q
    BY <1>1, <1>3, <1>4 DEF NoticesAsPrinted, PrintedInOrder
  <2>2. \A i \in DOMAIN notices : Said(notices[i])
    BY DEF NoticesAsPrinted, Said
  <2>. QED  BY <1>1, <2>1, <2>2 DEF NoticesAsPrinted, Said
<1>. QED  BY <1>5, <1>6, <1>7, <1>8

LEMMA UpdateTemplateKeeps ==
  ASSUME NoticeInv, NEW r \in Requests, UpdateTemplate(r)
  PROVE  NoticeInv'
<1>. DEFINE q == noticeRequest[r]
            id == q.id
            row == q.new
            new == [id |-> id, row |-> row]
<1>1. /\ q.op = "Edit"
      /\ templates' = [templates EXCEPT ![id] = row] /\ printed' = printed \cup {new}
      /\ templatesRaced' = (templatesRaced \/ templates[id] # q.row)
      /\ edits' = edits + 1 /\ Settles(r) /\ UNCHANGED notices
  BY DEF UpdateTemplate, Prints
<1>2. /\ row \in Template /\ row.version \in Nat /\ q.row.version \in Nat
      /\ id \in DOMAIN templates /\ id \in Nat /\ row.version = q.row.version + 1
  BY <1>1, NoticeRequestType DEF NoticeInv, NoticeTypeOK, NoticeRead, Template
<1>3. ~templatesRaced' => ~templatesRaced /\ row.version = templates[id].version + 1
  BY <1>1, <1>2
<1>. HIDE DEF row, id, q
<1>4. /\ templates' \in Seq(Template) /\ DOMAIN templates' = DOMAIN templates
      /\ templates'[id] = row
      /\ \A i \in DOMAIN templates \ {id} : templates'[i] = templates[i]
  BY <1>1, <1>2 DEF NoticeInv, NoticeTypeOK
<1>5. new \in [id : Nat, row : Template] /\ new.id = id /\ new.row = row
  BY <1>2
<1>. HIDE DEF new
<1>6. /\ \A s \in Requests : NoticeRead(noticeRequest[s])'
      /\ noticeRequest' \in [Requests -> NoticeRequest]
  BY <1>1, <1>4, ReadStays
<1>. USE DEF NoticeInv
<1>7. NoticeTypeOK'
  BY <1>1, <1>4, <1>5, <1>6 DEF NoticeTypeOK
<1>8. \A p \in printed : p.row.version \in Nat /\ p.id \in DOMAIN templates
  BY DEF NoticeTypeOK, PrintedInOrder, Template
<1>9. \A i \in DOMAIN templates : templates[i].version \in Nat
  <2>1. \A i \in DOMAIN templates : templates[i] \in Template
    BY DEF NoticeTypeOK
  <2>. QED  BY <2>1 DEF Template
<1>10. ~templatesRaced' => \A p \in printed : p.id = id => p.row.version < row.version
  BY <1>2, <1>3, <1>8, <1>9 DEF PrintedInOrder
<1>11. PrintedInOrder'
  <2>1. \A p \in printed' : p.id \in DOMAIN templates'
    BY <1>1, <1>2, <1>4, <1>5, <1>8
  <2>2. \A i \in DOMAIN templates' : [id |-> i, row |-> templates'[i]] \in printed'
    BY <1>1, <1>4 DEF PrintedInOrder, new
  <2>3. ~templatesRaced' => \A p \in printed' : p.row.version <= templates'[p.id].version
    <3>. SUFFICES ASSUME ~templatesRaced', NEW p \in printed'
                  PROVE  p.row.version <= templates'[p.id].version
      OBVIOUS
    <3>1. CASE p = new
      BY <1>2, <1>4, <1>5, <3>1
    <3>2. CASE p \in printed /\ p.id = id
      BY <1>2, <1>4, <1>8, <1>10, <3>2
    <3>3. CASE p \in printed /\ p.id # id
      BY <1>3, <1>4, <1>8, <3>3 DEF PrintedInOrder
    <3>. QED  BY <1>1, <3>1, <3>2, <3>3
  <2>. QED  BY <2>1, <2>2, <2>3 DEF PrintedInOrder
<1>12. NoticesAsPrinted'
  <2>1. ~templatesRaced' =>
          \A p, o \in printed' : p.id = o.id /\ p.row.version = o.row.version => p = o
    BY <1>1, <1>2, <1>3, <1>5, <1>8, <1>10 DEF NoticesAsPrinted
  <2>2. \A i \in DOMAIN notices : Said(notices[i])
    BY DEF NoticesAsPrinted, Said
  <2>. QED  BY <1>1, <2>1, <2>2 DEF NoticesAsPrinted, Said
<1>. QED  BY <1>6, <1>7, <1>11, <1>12

LEMMA MarkReadKeeps ==
  ASSUME NoticeInv, NEW recipient \in Recipients, MarkRead(recipient)
  PROVE  NoticeInv'
<1>. USE DEF NoticeInv
<1>1. PICK some :
        notices' = [i \in DOMAIN notices |->
                     IF i \in some THEN [notices[i] EXCEPT !.read = TRUE] ELSE notices[i]]
  BY DEF MarkRead
<1>2. UNCHANGED <<templates, noticeRequest, edits, printed, templatesRaced>>
  BY DEF MarkRead
<1>3. Len(notices) \in Nat /\ DOMAIN notices = 1..Len(notices) /\ \A i \in DOMAIN notices : notices[i] \in Notice
  BY DEF NoticeTypeOK
<1>4. /\ DOMAIN notices' = DOMAIN notices
      /\ \A i \in DOMAIN notices :
           /\ notices'[i] \in Notice /\ notices'[i].code = notices[i].code
           /\ notices'[i].text = notices[i].text /\ notices'[i].key = notices[i].key
  BY <1>1, <1>3 DEF Notice
<1>5. notices' \in Seq(Notice)
  <2>1. notices' \in [1..Len(notices) -> Notice]
    BY <1>1, <1>3, <1>4
  <2>. QED  BY <1>3, <2>1
<1>6. NoticeTypeOK'
  BY <1>2, <1>5 DEF NoticeTypeOK
<1>7. NoticesAsPrinted'
  BY <1>2, <1>4 DEF NoticesAsPrinted
<1>. QED  BY <1>2, <1>6, <1>7 DEF PrintedInOrder, NoticeRead, Said

LEMMA FailNoticeKeeps ==
  ASSUME NoticeInv, NEW r \in Requests, FailNotice(r)
  PROVE  NoticeInv'
<1>1. Settles(r) /\ UNCHANGED <<templates, notices, edits, printed, templatesRaced>>
  BY DEF FailNotice
<1>2. /\ \A s \in Requests : NoticeRead(noticeRequest[s])'
      /\ noticeRequest' \in [Requests -> NoticeRequest]
  BY <1>1, ReadStays
<1>. QED  BY <1>1, <1>2 DEF NoticeInv, NoticeTypeOK, PrintedInOrder, NoticesAsPrinted

LEMMA NoticeHolds == Spec => []NoticeInv
<1>1. Init => NoticeInv
  BY NoticeAtFirst DEF Init
<1>2. NoticeInv /\ [Next]_vars => NoticeInv'
  <2>1. NoticeInv /\ UNCHANGED noticeVars => NoticeInv'
    BY DEF NoticeInv, noticeVars, NoticeTypeOK, PrintedInOrder, NoticeRead, Said, NoticesAsPrinted
  <2>2. NoticeInv /\ NoticeStep => NoticeInv'
    BY BeginningKeeps, MakeNoticeKeeps, CreateTemplateKeeps, UpdateTemplateKeeps, MarkReadKeeps,
       FailNoticeKeeps DEF NoticeStep, NoticeNext
  <2>. QED  BY <2>1, <2>2, NoticeSteps
<1>. QED  BY <1>1, <1>2, PTL DEF Spec

\* NotificationsService.updateTemplate, createFromTemplate: the version of a
\* template stands for one text, as long as no edit is saved over another; and
\* every notice repeats what a template in use said, once for a key.
THEOREM NoticesRepeatTemplates == Spec => []NoticesAsPrinted
<1>1. NoticeInv => NoticesAsPrinted
  BY DEF NoticeInv
<1>. QED  BY <1>1, NoticeHolds, PTL

-----------------------------------------------------------------------------
(* The lists *)

LEMMA ListSteps == [Next]_vars => ListNext \/ UNCHANGED listVars
<1>. SUFFICES ASSUME [Next]_vars PROVE ListNext \/ UNCHANGED listVars
  OBVIOUS
<1>1. ASSUME NEW r \in Requests, Begin(r) PROVE UNCHANGED listVars
  BY <1>1 DEF Begin, AtStaff, AtTickets
<1>2. CASE Next
  BY <1>1, <1>2 DEF Next, AtGate, Pass, AtStaff, AtTickets, AtNotices, AtLists
<1>. QED  BY <1>2 DEF vars

\* What a walk w has come to, as long as nothing upset the reader: a row that
\* was steady has been seen, or stands no earlier than where the walk goes on.
Placed(w) ==
  /\ w.page > 0
  /\ steady \subseteq Listed(rows, w)
  /\ "items" \in w.pending =>
       \A i \in steady : i \in w.seen \/ (w.page - 1) * Limit <= Rank(w, i)
  /\ "items" \notin w.pending =>
       \A i \in steady : i \in w.seen \cup w.items \/ w.page * Limit <= Rank(w, i)
  /\ "count" \notin w.pending => w.total = Cardinality(Listed(rows, w))

\* A walk that is over has seen the steady rows.
Reached(w) ==
  /\ w.pending # {} => Placed(w)
  /\ w.pending = {} /\ w.page > 0 => steady \subseteq w.seen

\* A row that is touched is so later than all the others.
TouchedBefore == \A i \in DOMAIN rows : rows[i].touched <= events

ListInv ==
  /\ ListTypeOK
  /\ TouchedBefore
  /\ ~upset => Reached(walk)

By(w) == Lists[w.list].by

LEMMA Orders ==
  ASSUME NEW w \in Walk
  PROVE  /\ By(w) \in {"created", "touched", "id", "shuffle"}
         /\ By(w) = "shuffle" => w.list = "catalogue"
<1>1. w.list \in DOMAIN Lists
  BY DEF Walk
<1>. QED
  BY <1>1 DEF By, Lists, StaffList, TicketList, NoticeList, OwnProductList, ProductList, CategoryList,
              SellerList, Catalogue

LEMMA RowNumbers ==
  ASSUME ListTypeOK
  PROVE  /\ Len(rows) \in Nat /\ DOMAIN rows = 1..Len(rows)
         /\ \A i \in DOMAIN rows : rows[i] \in Row
         /\ \A w : Listed(rows, w) \subseteq DOMAIN rows /\ IsFiniteSet(Listed(rows, w))
<1>1. Len(rows) \in Nat /\ DOMAIN rows = 1..Len(rows) /\ \A i \in DOMAIN rows : rows[i] \in Row
  BY DEF ListTypeOK
<1>2. IsFiniteSet(DOMAIN rows)
  BY <1>1, FS_Interval
<1>3. ASSUME NEW w PROVE Listed(rows, w) \subseteq DOMAIN rows /\ IsFiniteSet(Listed(rows, w))
  <2>1. Listed(rows, w) \subseteq DOMAIN rows
    BY DEF Listed
  <2>. QED  BY <1>2, <2>1, FS_Subset
<1>. QED  BY <1>1, <1>3

LEMMA ShuffleType ==
  ASSUME NEW i \in Nat, NEW day \in Nat
  PROVE  Shuffle(i, day) \in Nat
<1>1. MaxRows + 1 \in Nat \ {0} /\ 2 * i + day \in Nat
  BY ListAssumption
<1>. QED  BY <1>1 DEF Shuffle

\* No row comes before itself.
LEMMA NotBeforeItself ==
  ASSUME ListTypeOK, NEW w \in Walk, NEW i \in DOMAIN rows
  PROVE  ~Before(By(w), rows, date, i, i)
<1>1. i \in Nat /\ rows[i] \in Row /\ date \in Nat
  BY RowNumbers DEF ListTypeOK
<1>2. rows[i].touched \in Int /\ Shuffle(i, date) \in Nat
  BY <1>1, ShuffleType DEF Row
<1>3. ~CatalogueBefore(rows, date, i, i)
  BY <1>2 DEF CatalogueBefore
<1>4. By(w) \in {"created", "touched", "id", "shuffle"}
  BY Orders
<1>5. ~(i > i) /\ ~(i < i) /\ ~(rows[i].touched > rows[i].touched)
  BY <1>1, <1>2
<1>. QED  BY <1>3, <1>4, <1>5, Zenon DEF Before

Ahead(w, i) == {j \in Listed(rows, w) : Before(By(w), rows, date, j, i)}

LEMMA RankBelowTotal ==
  ASSUME ListTypeOK, NEW w \in Walk, NEW i \in Listed(rows, w)
  PROVE  /\ Rank(w, i) \in Nat /\ Cardinality(Listed(rows, w)) \in Nat
         /\ Rank(w, i) < Cardinality(Listed(rows, w))
<1>1. i \in DOMAIN rows /\ IsFiniteSet(Listed(rows, w))
  BY RowNumbers
<1>2. Ahead(w, i) \subseteq Listed(rows, w) \ {i}
  BY <1>1, NotBeforeItself DEF Ahead
<1>3. IsFiniteSet(Listed(rows, w) \ {i})
  BY <1>1, FS_Subset
<1>4. /\ Cardinality(Ahead(w, i)) \in Nat /\ Cardinality(Listed(rows, w)) \in Nat
      /\ Cardinality(Ahead(w, i)) <= Cardinality(Listed(rows, w) \ {i})
      /\ Cardinality(Listed(rows, w) \ {i}) = Cardinality(Listed(rows, w)) - 1
  <2>1. IsFiniteSet(Ahead(w, i)) /\ Cardinality(Ahead(w, i)) <= Cardinality(Listed(rows, w) \ {i})
    BY <1>2, <1>3, FS_Subset
  <2>. QED  BY <1>1, <2>1, FS_CardinalityType, FS_RemoveElement
<1>5. Rank(w, i) = Cardinality(Ahead(w, i))
  BY DEF Rank, Ahead, By
<1>. QED  BY <1>4, <1>5

\* The last page is the one behind which there is nothing.
LEMMA LastPage ==
  ASSUME NEW total \in Nat, NEW page \in Nat, page >= TotalPages(total)
  PROVE  total <= page * Limit
<1>. DEFINE d == (total + Limit - 1) \div Limit
            m == (total + Limit - 1) % Limit
<1>1. Limit \in Nat /\ Limit > 0 /\ total + Limit - 1 \in Nat
  BY ListAssumption
<1>2. d \in Nat /\ m \in 0..(Limit - 1) /\ total + Limit - 1 = Limit * d + m
  BY <1>1
<1>3. d <= page
  BY DEF TotalPages
<1>. HIDE DEF d, m
<1>4. total <= Limit * d
  BY <1>1, <1>2
<1>5. Limit * d <= Limit * page /\ Limit * page = page * Limit
  BY <1>1, <1>2, <1>3
<1>6. Limit * d \in Nat /\ page * Limit \in Nat
  BY <1>1, <1>2
<1>. QED  BY <1>4, <1>5, <1>6

\* A walk of the same list stands where it stood, however far it is.
LEMMA SameList ==
  ASSUME NEW v, NEW w, w.list = v.list, w.owner = v.owner, w.status = v.status
  PROVE  /\ \A table : Listed(table, w) = Listed(table, v)
         /\ \A i : Rank(w, i) = Rank(v, i)
BY DEF Listed, Rank

LEMMA ListAtFirst == ListInit => ListInv
<1>. SUFFICES ASSUME ListInit PROVE ListInv
  OBVIOUS
<1>. DEFINE n == MaxRows - 1
            row(i) == [owner |-> CHOOSE o \in Owners : TRUE,
                       status |-> CHOOSE s \in Statuses : TRUE, shown |-> TRUE,
                       touched |-> i - n, boosted |-> FALSE]
<1>1. n \in Nat
  BY ListAssumption
<1>2. rows = [i \in 1..n |-> row(i)]
  BY DEF ListInit
<1>3. ASSUME NEW i \in 1..n PROVE row(i) \in Row /\ row(i).touched = i - n
  BY <1>1, <1>3, ListAssumption DEF Row
<1>. HIDE DEF row, n
<1>4. rows \in Seq(Row)
  <2>1. rows \in [1..n -> Row]
    BY <1>2, <1>3
  <2>. QED  BY <1>1, <2>1
<1>5. walk \in Walk
  BY DEF ListInit, NoWalk, Walk, Lists
<1>6. ListTypeOK
  <2>1. date = 0 /\ DOMAIN kept = {} /\ steady = {} /\ upset = FALSE /\ events = 0
    BY DEF ListInit
  <2>. QED  BY <1>4, <1>5, <2>1 DEF ListTypeOK
<1>7. TouchedBefore
  <2>1. \A i \in DOMAIN rows : i \in 1..n /\ rows[i].touched = i - n
    BY <1>2, <1>3
  <2>2. events = 0
    BY DEF ListInit
  <2>. QED  BY <1>1, <2>1, <2>2 DEF TouchedBefore
<1>8. Reached(walk)
  BY DEF ListInit, NoWalk, Reached
<1>. QED  BY <1>6, <1>7, <1>8 DEF ListInv

LEMMA StartWalkKeeps ==
  ASSUME ListInv, NEW list \in DOMAIN Lists, NEW owner \in Owners \cup {ANY},
         NEW status \in Statuses \cup {ANY}, StartWalk(list, owner, status)
  PROVE  ListInv'
<1>. DEFINE w == [NoWalk EXCEPT !.list = list, !.owner = owner, !.status = status, !.page = 1,
                                !.pending = Queries]
<1>1. /\ walk' = w /\ steady' = Listed(rows, w) /\ upset' = FALSE
      /\ UNCHANGED <<rows, date, kept, events>>
  BY DEF StartWalk
<1>2. w \in Walk /\ w.page = 1 /\ w.pending = Queries
  BY DEF NoWalk, Walk
<1>. HIDE DEF w
<1>. USE DEF ListInv
<1>3. ListTypeOK'
  BY <1>1, <1>2, RowNumbers DEF ListTypeOK
<1>4. \A i \in steady' : (1 - 1) * Limit <= Rank(w, i)
  BY <1>1, <1>2, RankBelowTotal, ListAssumption
<1>5. \A i \in steady' : (w.page - 1) * Limit <= Rank(w, i)
  BY <1>2, <1>4
<1>6. \A i \in steady' : (walk'.page - 1) * Limit <= Rank(walk, i)'
  BY <1>1, <1>5 DEF Rank
<1>7. Placed(walk)'
  BY <1>1, <1>2, <1>6 DEF Placed, Queries
<1>. QED  BY <1>1, <1>2, <1>3, <1>7 DEF TouchedBefore, Reached, Queries

\* The answers to the queries of a page bring the walk on.
LEMMA ReadsOn ==
  ASSUME ListTypeOK, NEW v \in Walk, NEW w \in Walk, Placed(v),
         w.list = v.list, w.owner = v.owner, w.status = v.status, w.page = v.page, w.seen = v.seen,
         w.pending \subseteq v.pending,
         "items" \notin w.pending => w.items = IF "items" \in v.pending THEN Page(v) ELSE v.items,
         "count" \notin w.pending =>
           w.total = IF "count" \in v.pending THEN Cardinality(Listed(rows, v)) ELSE v.total
  PROVE  Placed(w)
<1>1. Listed(rows, w) = Listed(rows, v) /\ \A i : Rank(w, i) = Rank(v, i)
  BY SameList
<1>2. "items" \notin w.pending =>
        \A i \in steady : i \in w.seen \cup w.items \/ w.page * Limit <= Rank(w, i)
  <2>1. CASE "items" \in v.pending
    <3>. SUFFICES ASSUME "items" \notin w.pending, NEW i \in steady, i \notin v.seen
                  PROVE  i \in w.items \/ w.page * Limit <= Rank(w, i)
      OBVIOUS
    <3>1. i \in Listed(rows, v) /\ (v.page - 1) * Limit <= Rank(v, i)
      BY <2>1 DEF Placed
    <3>2. Rank(v, i) \in Nat /\ v.page * Limit \in Nat
      BY <3>1, RankBelowTotal, ListAssumption DEF Walk
    <3>3. i \in Page(v) \/ v.page * Limit <= Rank(v, i)
      BY <3>1, <3>2 DEF Page
    <3>. QED  BY <1>1, <2>1, <3>3
  <2>2. CASE "items" \notin v.pending
    BY <1>1, <2>2 DEF Placed
  <2>. QED  BY <2>1, <2>2
<1>. QED  BY <1>1, <1>2 DEF Placed

LEMMA AnsweredType ==
  ASSUME NEW w \in Walk
  PROVE  Answered(w) \in Walk
<1>. DEFINE seen == w.seen \cup w.items
<1>1. seen \in SUBSET Nat /\ w.page + 1 \in Nat /\ Queries \in SUBSET Queries /\ {} \in SUBSET Nat
  BY DEF Walk
<1>. HIDE DEF seen
<1>2. [w EXCEPT !.seen = seen, !.items = {}, !.total = 0] \in Walk
  BY <1>1 DEF Walk
<1>3. [w EXCEPT !.page = w.page + 1, !.seen = seen, !.items = {}, !.total = 0, !.pending = Queries]
        \in Walk
  BY <1>1 DEF Walk
<1>. QED  BY <1>2, <1>3 DEF Answered, seen

\* The reader takes the page and asks for the next, or has come to the end.
LEMMA TakesPage ==
  ASSUME ListTypeOK, NEW w \in Walk, Placed(w)
  PROVE  Reached(Answered(w))
<1>. DEFINE a == Answered(w)
            seen == w.seen \cup w.items
<1>1. /\ w.page \in Nat /\ w.total \in Nat /\ seen \in SUBSET Nat /\ w.page > 0
      /\ Limit \in Nat
  BY ListAssumption DEF Walk, Placed
<1>2. CASE w.pending # {}
  BY <1>2 DEF Answered, Reached
<1>5. seen = w.seen \cup w.items
  OBVIOUS
<1>3. CASE w.pending = {} /\ w.page >= TotalPages(w.total)
  <2>1. a = [w EXCEPT !.seen = seen, !.items = {}, !.total = 0]
    BY <1>3 DEF Answered
  <2>. HIDE DEF seen, a
  <2>2. a.pending = {} /\ a.seen = seen
    BY <1>1, <1>3, <2>1 DEF Walk
  <2>3. w.total <= w.page * Limit
    BY <1>1, <1>3, LastPage
  <2>4. ASSUME NEW i \in steady, i \notin seen PROVE FALSE
    <3>1. i \in Listed(rows, w) /\ w.page * Limit <= Rank(w, i) /\ w.total = Cardinality(Listed(rows, w))
      BY <1>5, <1>3, <2>4 DEF Placed
    <3>2. Rank(w, i) \in Nat /\ Rank(w, i) < w.total /\ w.page * Limit \in Nat
      BY <1>1, <3>1, RankBelowTotal
    <3>. QED  BY <1>1, <2>3, <3>1, <3>2
  <2>. QED  BY <2>2, <2>4 DEF Reached, a
<1>4. CASE w.pending = {} /\ ~(w.page >= TotalPages(w.total))
  <2>1. a = [w EXCEPT !.page = w.page + 1, !.seen = seen, !.items = {}, !.total = 0,
                      !.pending = Queries]
    BY <1>4 DEF Answered
  <2>. HIDE DEF seen, a
  <2>2. /\ a.pending = Queries /\ a.seen = seen /\ a.page = w.page + 1
        /\ a.list = w.list /\ a.owner = w.owner /\ a.status = w.status
    BY <1>1, <2>1 DEF Walk
  <2>3. a.page - 1 = w.page /\ a.page > 0
    BY <1>1, <2>2
  <2>4. Listed(rows, a) = Listed(rows, w) /\ \A i : Rank(a, i) = Rank(w, i)
    BY <2>2, SameList
  <2>5. \A i \in steady : i \in a.seen \/ (a.page - 1) * Limit <= Rank(a, i)
    BY <1>5, <1>4, <2>2, <2>3, <2>4 DEF Placed
  <2>6. Placed(a)
    BY <2>2, <2>3, <2>4, <2>5 DEF Placed, Queries
  <2>. QED  BY <2>2, <2>6 DEF Reached, Queries, a
<1>. QED  BY <1>2, <1>3, <1>4

\* Nothing but the walk, and the pages that are kept, changes as it goes on.
LEMMA WalkOn ==
  ASSUME ListInv, NEW w \in Walk, walk' = Answered(w), ~upset' => ~upset /\ Placed(w),
         upset' \in BOOLEAN, UNCHANGED <<rows, date, steady, events>>,
         \A page \in DOMAIN kept' : kept'[page] \in [items : SUBSET Nat, total : Nat]
  PROVE  ListInv'
<1>. USE DEF ListInv
<1>1. ListTypeOK'
  BY AnsweredType DEF ListTypeOK
<1>2. TouchedBefore'
  BY DEF TouchedBefore
<1>3. ASSUME ~upset' PROVE Reached(walk)'
  <2>1. Reached(Answered(w))
    BY <1>3, TakesPage
  <2>. HIDE DEF ListInv
  <2>. QED  BY <2>1 DEF Reached, Placed, Rank
<1>. QED  BY <1>1, <1>2, <1>3

LEMMA GetsKeeps ==
  ASSUME ListInv, NEW w \in Walk, Gets(w), ~upset => Placed(w)
  PROVE  ListInv'
<1>1. /\ walk' = Answered(w) /\ UNCHANGED <<rows, date, steady, upset, events>>
      /\ kept' = IF w.list = "catalogue" /\ w.pending = {}
                 THEN [page \in DOMAIN kept \cup {w.page} |->
                        IF page = w.page THEN [items |-> w.items, total |-> w.total] ELSE kept[page]]
                 ELSE kept
  BY DEF Gets
<1>2. \A page \in DOMAIN kept : kept[page] \in [items : SUBSET Nat, total : Nat]
  BY DEF ListInv, ListTypeOK
<1>3. [items |-> w.items, total |-> w.total] \in [items : SUBSET Nat, total : Nat]
  BY DEF Walk
<1>4. \A page \in DOMAIN kept' : kept'[page] \in [items : SUBSET Nat, total : Nat]
  BY <1>1, <1>2, <1>3
<1>5. upset' \in BOOLEAN
  BY <1>1 DEF ListInv, ListTypeOK
<1>. QED  BY <1>1, <1>4, <1>5, WalkOn

LEMMA PageType ==
  ASSUME ListTypeOK
  PROVE  \A w : Page(w) \in SUBSET Nat /\ Cardinality(Listed(rows, w)) \in Nat
<1>. TAKE w
<1>1. Listed(rows, w) \subseteq Nat /\ IsFiniteSet(Listed(rows, w))
  BY RowNumbers
<1>. QED  BY <1>1, FS_CardinalityType DEF Page

LEMMA ReadCountKeeps == ListInv /\ ReadCount => ListInv'
<1>. SUFFICES ASSUME ListInv, ReadCount PROVE ListInv'
  OBVIOUS
<1>. DEFINE total == Cardinality(Listed(rows, walk))
            w == [walk EXCEPT !.total = total, !.pending = walk.pending \ {"count"}]
<1>1. ListTypeOK /\ walk \in Walk /\ (~upset => Reached(walk)) /\ total \in Nat
  BY PageType DEF ListInv, ListTypeOK
<1>2. "count" \in walk.pending /\ Gets(w)
  BY DEF ReadCount, Asks
<1>3. w.total = total
  BY <1>1 DEF Walk
<1>. HIDE DEF total
<1>4. /\ w \in Walk /\ w.list = walk.list /\ w.owner = walk.owner /\ w.status = walk.status
      /\ w.page = walk.page /\ w.seen = walk.seen /\ w.items = walk.items
      /\ w.pending = walk.pending \ {"count"}
  BY <1>1 DEF Walk
<1>. HIDE DEF w
<1>5. ASSUME ~upset PROVE Placed(w)
  <2>1. Placed(walk)
    BY <1>1, <1>2, <1>5 DEF Reached
  <2>2. "items" \notin w.pending => "items" \notin walk.pending
    BY <1>4
  <2>. QED  BY <1>1, <1>2, <1>3, <1>4, <2>1, <2>2, ReadsOn DEF total
<1>. QED  BY <1>2, <1>4, <1>5, GetsKeeps

LEMMA ReadItemsKeeps == ListInv /\ ReadItems => ListInv'
<1>. SUFFICES ASSUME ListInv, ReadItems PROVE ListInv'
  OBVIOUS
<1>. DEFINE items == Page(walk)
            w == [walk EXCEPT !.items = items, !.pending = walk.pending \ {"items"}]
<1>1. ListTypeOK /\ walk \in Walk /\ (~upset => Reached(walk)) /\ items \in SUBSET Nat
  BY PageType DEF ListInv, ListTypeOK
<1>2. "items" \in walk.pending /\ Gets(w)
  BY DEF ReadItems, Asks
<1>. HIDE DEF items
<1>3. /\ w \in Walk /\ w.list = walk.list /\ w.owner = walk.owner /\ w.status = walk.status
      /\ w.page = walk.page /\ w.seen = walk.seen /\ w.items = items /\ w.total = walk.total
      /\ w.pending = walk.pending \ {"items"}
  BY <1>1 DEF Walk
<1>. HIDE DEF w
<1>4. ASSUME ~upset PROVE Placed(w)
  <2>1. Placed(walk)
    BY <1>1, <1>2, <1>4 DEF Reached
  <2>2. "count" \notin w.pending => "count" \notin walk.pending
    BY <1>3
  <2>. QED  BY <1>1, <1>2, <1>3, <2>1, <2>2, ReadsOn DEF items
<1>. QED  BY <1>2, <1>3, <1>4, GetsKeeps

\* A page from the cache that is true is as good as one that was asked for.
LEMMA ReadKeptKeeps == ListInv /\ ReadKept => ListInv'
<1>. SUFFICES ASSUME ListInv, ReadKept PROVE ListInv'
  OBVIOUS
<1>. DEFINE page == kept[walk.page]
            fresh == [items |-> Page(walk), total |-> Cardinality(Listed(rows, walk))]
            w == [walk EXCEPT !.items = page.items, !.total = page.total, !.pending = {}]
<1>1. ListTypeOK /\ walk \in Walk /\ (~upset => Reached(walk))
  BY DEF ListInv, ListTypeOK
<1>2. /\ walk.pending = Queries /\ walk.page \in DOMAIN kept
      /\ walk' = Answered(w) /\ upset' = (upset \/ page # fresh)
      /\ UNCHANGED <<rows, date, kept, steady, events>>
  BY DEF ReadKept
<1>3. page \in [items : SUBSET Nat, total : Nat]
  BY <1>1, <1>2 DEF ListTypeOK
<1>4. page = fresh => page.items = Page(walk) /\ page.total = Cardinality(Listed(rows, walk))
  OBVIOUS
<1>. HIDE DEF page, fresh
<1>5. /\ w \in Walk /\ w.list = walk.list /\ w.owner = walk.owner /\ w.status = walk.status
      /\ w.page = walk.page /\ w.seen = walk.seen /\ w.items = page.items /\ w.total = page.total
      /\ w.pending = {}
  BY <1>1, <1>3 DEF Walk
<1>. HIDE DEF w
<1>6. ASSUME ~upset' PROVE ~upset /\ Placed(w)
  <2>1. ~upset /\ Placed(walk)
    BY <1>1, <1>2, <1>6 DEF Reached, Queries
  <2>2. w.items = Page(walk) /\ w.total = Cardinality(Listed(rows, walk))
    BY <1>2, <1>4, <1>5, <1>6
  <2>3. "items" \in walk.pending /\ "count" \in walk.pending
    BY <1>2 DEF Queries
  <2>. QED  BY <1>1, <1>5, <2>1, <2>2, <2>3, ReadsOn
<1>7. /\ upset' \in BOOLEAN
      /\ \A p \in DOMAIN kept' : kept'[p] \in [items : SUBSET Nat, total : Nat]
  BY <1>1, <1>2 DEF ListTypeOK
<1>. QED  BY <1>2, <1>5, <1>6, <1>7, WalkOn

LEMMA KeptExpiresKeeps == ListInv /\ KeptExpires => ListInv'
<1>. SUFFICES ASSUME ListInv, KeptExpires PROVE ListInv'
  OBVIOUS
<1>1. UNCHANGED <<rows, date, walk, steady, upset, events>>
  BY DEF KeptExpires
<1>2. \A page \in DOMAIN kept' : kept'[page] \in [items : SUBSET Nat, total : Nat]
  BY DEF KeptExpires, ListInv, ListTypeOK
<1>. QED  BY <1>1, <1>2 DEF ListInv, ListTypeOK, TouchedBefore, Reached, Placed, Rank

LEMMA TurnDateKeeps == ListInv /\ TurnDate => ListInv'
<1>. SUFFICES ASSUME ListInv, TurnDate PROVE ListInv'
  OBVIOUS
<1>1. events' = events + 1 /\ date' = date + 1 /\ upset' = TRUE /\ UNCHANGED <<rows, walk, kept, steady>>
  BY DEF TurnDate
<1>2. ListTypeOK'
  BY <1>1 DEF ListInv, ListTypeOK
<1>3. \A i \in DOMAIN rows : rows[i].touched \in Int
  BY RowNumbers DEF ListInv, Row
<1>4. TouchedBefore'
  BY <1>1, <1>3 DEF ListInv, ListTypeOK, TouchedBefore
<1>. QED  BY <1>1, <1>2, <1>4 DEF ListInv

\* What others make of the rows: none goes away, and one that is touched is so
\* now.
Evolves(table) ==
  /\ table \in Seq(Row)
  /\ DOMAIN rows \subseteq DOMAIN table
  /\ \A j \in DOMAIN table : table[j].touched <= events + 1
  /\ \A j \in DOMAIN rows : table[j].touched \in {rows[j].touched, events + 1}

\* A row before one that keeps its place stays before it.
LEMMA StaysBefore ==
  ASSUME ListTypeOK, TouchedBefore, NEW table, Evolves(table), NEW w \in Walk,
         NEW i \in DOMAIN rows, NEW j \in DOMAIN rows, Keeps(w, table, i),
         w.list = "catalogue" /\ rows[j].boosted => table[j].boosted,
         Before(By(w), rows, date, j, i)
  PROVE  Before(By(w), table, date, j, i)
<1>1. By(w) \in {"created", "touched", "id", "shuffle"} /\ (By(w) = "shuffle" => w.list = "catalogue")
  BY Orders
<1>2. /\ rows[i].touched \in Int /\ rows[j].touched \in Int /\ events \in Nat
      /\ rows[i].touched <= events
      /\ rows[i].boosted \in BOOLEAN /\ rows[j].boosted \in BOOLEAN
  BY RowNumbers DEF ListTypeOK, TouchedBefore, Row
<1>3. table[i].boosted \in BOOLEAN /\ table[j].boosted \in BOOLEAN
  <2>1. table[i] \in Row /\ table[j] \in Row
    BY DEF Evolves
  <2>. QED  BY <2>1 DEF Row
<1>4. table[j].touched \in {rows[j].touched, events + 1}
  BY DEF Evolves
<1>5. CASE By(w) \in {"created", "id"}
  BY <1>5 DEF Before
<1>6. CASE By(w) = "touched"
  <2>1. table[i].touched = rows[i].touched /\ rows[j].touched > rows[i].touched
    BY <1>6 DEF Keeps, Before, By
  <2>2. table[j].touched > table[i].touched
    BY <1>2, <1>4, <2>1
  <2>. QED  BY <1>6, <2>2 DEF Before
<1>7. CASE By(w) = "shuffle"
  <2>1. table[i].boosted = rows[i].boosted /\ CatalogueBefore(rows, date, j, i)
    BY <1>7 DEF Keeps, Before, By
  <2>2. rows[j].boosted => table[j].boosted
    BY <1>1, <1>7
  <2>3. CatalogueBefore(table, date, j, i)
    BY <1>2, <1>3, <2>1, <2>2 DEF CatalogueBefore
  <2>. QED  BY <1>7, <2>3 DEF Before
<1>. QED  BY <1>1, <1>5, <1>6, <1>7

\* Without upsetting the reader, rows only come in or move to the front: those
\* that keep their place are pushed back.
LEMMA BecomesKeeps ==
  ASSUME ListInv, NEW table, Evolves(table), Becomes(table)
  PROVE  ListInv'
<1>. DEFINE old == Listed(rows, walk)
            new == Listed(table, walk)
<1>0. ListTypeOK /\ TouchedBefore /\ walk \in Walk
  BY DEF ListInv, ListTypeOK
<1>1. /\ walk.pending # {} /\ events' = events + 1 /\ rows' = table
      /\ steady' = {i \in steady \cap new : Keeps(walk, table, i)}
      /\ UNCHANGED <<date, walk, kept>>
  BY DEF Becomes
<1>2. upset' = \/ upset
               \/ old \ new # {}
               \/ walk.list = "catalogue" /\ \E i \in old : rows[i].boosted /\ ~table[i].boosted
               \/ walk.pending = {"items"} /\ new \ old # {}
  BY DEF Becomes
<1>3. upset' \in BOOLEAN
  BY <1>0, <1>2 DEF ListTypeOK
<1>4. table \in Seq(Row) /\ new \subseteq DOMAIN table /\ old \subseteq DOMAIN rows
  BY DEF Evolves, Listed
<1>5. ListTypeOK'
  BY <1>0, <1>1, <1>3, <1>4 DEF ListTypeOK
<1>6. TouchedBefore'
  BY <1>1 DEF TouchedBefore, Evolves
<1>7. IsFiniteSet(new)
  <2>1. DOMAIN table = 1..Len(table) /\ Len(table) \in Nat
    BY <1>4
  <2>2. IsFiniteSet(DOMAIN table)
    BY <2>1, FS_Interval
  <2>. QED  BY <1>4, <2>2, FS_Subset
<1>8. ASSUME ~upset' PROVE Placed(walk)'
  <2>1. Placed(walk)
    BY <1>1, <1>2, <1>8 DEF ListInv, Reached
  <2>2. old \subseteq new /\ (walk.pending = {"items"} => new = old)
    BY <1>2, <1>8
  <2>3. \A j \in old : walk.list = "catalogue" /\ rows[j].boosted => table[j].boosted
    BY <1>2, <1>8
  <2>. HIDE DEF new, old
  <2>4. ASSUME NEW i \in steady'
        PROVE  Rank(walk, i) \in Nat /\ Rank(walk, i)' \in Nat /\ Rank(walk, i) <= Rank(walk, i)'
    <3>. DEFINE front == {j \in new : Before(By(walk), table, date, j, i)}
    <3>1. i \in old /\ i \in DOMAIN rows /\ Keeps(walk, table, i)
      BY <1>1, <1>4, <2>1, <2>4 DEF Placed, old
    <3>2. Ahead(walk, i) \subseteq front
      <4>. SUFFICES ASSUME NEW j \in old, Before(By(walk), rows, date, j, i)
                    PROVE  Before(By(walk), table, date, j, i) /\ j \in new
        BY DEF Ahead, old
      <4>1. j \in DOMAIN rows
        BY <1>4
      <4>. QED  BY <1>0, <2>2, <2>3, <3>1, <4>1, StaysBefore
    <3>3. IsFiniteSet(front)
      BY <1>7, FS_Subset
    <3>4. Cardinality(Ahead(walk, i)) <= Cardinality(front) /\ Cardinality(front) \in Nat
      BY <3>2, <3>3, FS_Subset, FS_CardinalityType
    <3>5. Rank(walk, i) = Cardinality(Ahead(walk, i)) /\ Rank(walk, i) \in Nat
      BY <1>0, <3>1, RankBelowTotal DEF Rank, Ahead, By, old
    <3>6. Rank(walk, i)' = Cardinality(front)
      BY <1>1 DEF Rank, By, new
    <3>. QED  BY <3>4, <3>5, <3>6
  <2>5. steady' \subseteq steady /\ steady' \subseteq new
    BY <1>1
  <2>6. /\ walk.page \in Nat /\ (walk.page - 1) * Limit \in Int /\ walk.page * Limit \in Int
        /\ walk.pending \subseteq Queries
    BY <1>0, ListAssumption DEF Walk
  <2>7. "items" \in walk.pending =>
          \A i \in steady' : i \in walk.seen \/ (walk.page - 1) * Limit <= Rank(walk, i)'
    BY <2>1, <2>4, <2>5, <2>6 DEF Placed
  <2>8. "items" \notin walk.pending =>
          \A i \in steady' : i \in walk.seen \cup walk.items \/ walk.page * Limit <= Rank(walk, i)'
    BY <2>1, <2>4, <2>5, <2>6 DEF Placed
  <2>9. "count" \notin walk.pending => walk.total = Cardinality(new)
    <3>1. "count" \notin walk.pending => walk.pending = {"items"}
      BY <1>1, <2>6 DEF Queries
    <3>. QED  BY <2>1, <2>2, <3>1 DEF Placed, old
  <2>10. Listed(rows, walk)' = new
    BY <1>1 DEF new
  <2>. QED  BY <1>1, <2>1, <2>5, <2>7, <2>8, <2>9, <2>10 DEF Placed
<1>. QED  BY <1>1, <1>5, <1>6, <1>8 DEF ListInv, Reached

\* What each of the others does to the rows.
LEMMA OthersKeep ==
  ASSUME ListInv
  PROVE  /\ \A owner \in Owners, status \in Statuses : AddRow(owner, status) => ListInv'
         /\ \A i \in DOMAIN rows :
              /\ \A status \in Statuses : UpdateRow(i, status) => ListInv'
              /\ ShowRow(i) => ListInv'
              /\ BoostRow(i) => ListInv'
<1>1. /\ rows \in Seq(Row) /\ Len(rows) \in Nat /\ DOMAIN rows = 1..Len(rows) /\ events \in Nat
      /\ \A i \in DOMAIN rows :
           /\ rows[i] \in Row /\ rows[i].touched \in Int /\ rows[i].touched <= events
  BY RowNumbers DEF ListInv, ListTypeOK, TouchedBefore, Row
<1>2. ASSUME NEW i \in DOMAIN rows, NEW row \in Row, row.touched \in {rows[i].touched, events + 1},
             Becomes([rows EXCEPT ![i] = row])
      PROVE  ListInv'
  <2>. DEFINE table == [rows EXCEPT ![i] = row]
  <2>1. table \in Seq(Row) /\ DOMAIN table = DOMAIN rows
    BY <1>1
  <2>2. table[i] = row /\ \A j \in DOMAIN rows \ {i} : table[j] = rows[j]
    BY <1>1
  <2>. HIDE DEF table
  <2>3. \A j \in DOMAIN rows : table[j].touched \in {rows[j].touched, events + 1}
    BY <1>2, <2>2
  <2>4. \A j \in DOMAIN table : table[j].touched <= events + 1
    BY <1>1, <2>1, <2>3
  <2>5. Evolves(table)
    BY <1>1, <2>1, <2>3, <2>4 DEF Evolves
  <2>. QED  BY <1>2, <2>5, BecomesKeeps DEF table
<1>3. ASSUME NEW owner \in Owners, NEW status \in Statuses, AddRow(owner, status)
      PROVE  ListInv'
  <2>. DEFINE row == [owner |-> owner, status |-> status, shown |-> TRUE, touched |-> events + 1,
                      boosted |-> FALSE]
              table == Append(rows, row)
  <2>1. row \in Row /\ row.touched = events + 1
    <3>1. events + 1 \in Int
      BY <1>1
    <3>. QED  BY <3>1 DEF Row
  <2>2. Becomes(table)
    BY <1>3 DEF AddRow
  <2>. HIDE DEF row
  <2>3. /\ table \in Seq(Row) /\ DOMAIN table = DOMAIN rows \cup {Len(rows) + 1}
        /\ table[Len(rows) + 1] = row /\ \A j \in DOMAIN rows : table[j] = rows[j]
    BY <1>1, <2>1
  <2>. HIDE DEF table
  <2>4. Evolves(table)
    BY <1>1, <2>1, <2>3 DEF Evolves
  <2>. QED  BY <2>2, <2>4, BecomesKeeps
<1>4. ASSUME NEW i \in DOMAIN rows, NEW status \in Statuses, UpdateRow(i, status)
      PROVE  ListInv'
  <2>. DEFINE row == [rows[i] EXCEPT !.status = status, !.touched = events + 1]
  <2>1. row \in Row /\ row.touched = events + 1
    <3>1. events + 1 \in Int /\ rows[i] \in Row
      BY <1>1
    <3>. QED  BY <3>1 DEF Row
  <2>2. Becomes([rows EXCEPT ![i] = row])
    BY <1>1, <1>4 DEF UpdateRow, Row
  <2>. HIDE DEF row
  <2>. QED  BY <1>2, <2>1, <2>2
<1>5. ASSUME NEW i \in DOMAIN rows, ShowRow(i)
      PROVE  ListInv'
  <2>. DEFINE row == [rows[i] EXCEPT !.shown = ~@, !.touched = events + 1]
  <2>1. row \in Row /\ row.touched = events + 1
    <3>1. events + 1 \in Int /\ rows[i] \in Row
      BY <1>1
    <3>. QED  BY <3>1 DEF Row
  <2>2. Becomes([rows EXCEPT ![i] = row])
    BY <1>1, <1>5 DEF ShowRow, Row
  <2>. HIDE DEF row
  <2>. QED  BY <1>2, <2>1, <2>2
<1>6. ASSUME NEW i \in DOMAIN rows, BoostRow(i)
      PROVE  ListInv'
  <2>. DEFINE row == [rows[i] EXCEPT !.boosted = ~@]
  <2>1. row \in Row /\ row.touched = rows[i].touched
    BY <1>1 DEF Row
  <2>2. Becomes([rows EXCEPT ![i] = row])
    BY <1>6 DEF BoostRow
  <2>. HIDE DEF row
  <2>. QED  BY <1>2, <2>1, <2>2
<1>. QED  BY <1>3, <1>4, <1>5, <1>6

LEMMA ListHolds == Spec => []ListInv
<1>1. Init => ListInv
  BY ListAtFirst DEF Init
<1>2. ListInv /\ [Next]_vars => ListInv'
  <2>1. ListInv /\ UNCHANGED listVars => ListInv'
    BY DEF ListInv, listVars, ListTypeOK, TouchedBefore, Reached, Placed, Rank
  <2>2. ListInv /\ ListNext => ListInv'
    BY StartWalkKeeps, ReadCountKeeps, ReadItemsKeeps, ReadKeptKeeps, KeptExpiresKeeps,
       TurnDateKeeps, OthersKeep DEF ListNext
  <2>. QED  BY <2>1, <2>2, ListSteps
<1>. QED  BY <1>1, <1>2, PTL DEF Spec

\* The paginated lists: a reader who goes through all the pages has seen every
\* row that stayed in the list and in its place, for pages of any size, unless
\* a row left the list or came in between the two queries of a page, or a kept
\* page was not true any more.
THEOREM WalksMissNothing == Spec => []WalkMissesNothing
<1>1. ListInv => WalkMissesNothing
  BY DEF ListInv, Reached, WalkMissesNothing
<1>. QED  BY <1>1, ListHolds, PTL

-----------------------------------------------------------------------------
(* All parts together *)

\* The rows, requests, walks and cached states of all parts keep their types.
THEOREM TypeCorrect == Spec => []TypeOK
<1>1. GateTypeOK /\ StaffInv /\ TicketInv /\ NoticeInv /\ ListInv => TypeOK
  BY DEF StaffInv, TicketInv, NoticeInv, ListInv, TypeOK
<1>. QED  BY <1>1, GateTypeHolds, StaffHolds, TicketHolds, NoticeHolds, ListHolds, PTL
=============================================================================
