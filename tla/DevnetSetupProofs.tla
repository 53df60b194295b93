-------------------------- MODULE DevnetSetupProofs ---------------------------
(***************************************************************************)
(* What the devnet tools promise of a permission record and of a setup, for *)
(* any number of grants and setups, any roles, expiries, lags, timelocks   *)
(* and amounts.  The first half is about grants alone (Spec); a setup only *)
(* restricts when a grant may run (SetupSpec implements Spec), so that its *)
(* results carry over to the second half.                                  *)
(***************************************************************************)
EXTENDS DevnetSetup, FiniteSetTheorems, TLAPS

(* How a record may follow another. *)
Follows(old, new) ==
    /\ new.generation = old.generation + 1
    /\ old.roles \subseteq new.roles
    /\ Exists(old) => new.expiry = old.expiry
    /\ Permitted(new)

(* The stages at which a grant has computed its new value and is not done. *)
Changing == {"pending", "timelock", "lifetime", "readback"} \cup TransactionStages

(* Roles are never taken away. *)
RolesGrow ==
    \A i, j \in 1..Len(versions) : i <= j => versions[i].roles \subseteq versions[j].roles

(* A grant works on a value the record has had; what it proposes follows that
   value and holds its roles; what is pending follows the value it names. *)
GrantSound(g) ==
    /\ grant[g].pc \in {"record", "clock"} => tx[g] = "none"
    /\ grant[g].pc \in {"clock"} \cup Changing => grant[g].old \in Range(versions)
    /\ grant[g].pc \in Changing \/ tx[g] = "propose" =>
         Follows(grant[g].old, grant[g].new) /\ Grant[g].roles \subseteq grant[g].new.roles
    /\ pending[g].status # "none" => Follows(pending[g].from, pending[g].to)
    /\ grant[g].pc = "returned" => Grant[g].roles \subseteq Record.roles

(* The inductive invariant of the grants. *)
IInv == TypeOK /\ RolesGrow /\ DangerousRolesExpire /\ \A g \in Grants : GrantSound(g)

----------------------------------------------------------------------------
(* The record and its versions. *)

LEMMA NoRecordType == NoRecord \in Records /\ \A r \in Records : r.roles \in SUBSET Roles /\ r.generation \in Nat /\ r.expiry \in Nat
BY DEF NoRecord, Records

(* The record is its latest version, and a view is one of them. *)
LEMMA Latest ==
    ASSUME versions \in Seq(Records), versions # <<>>
    PROVE  /\ Len(versions) \in Nat \ {0}
           /\ Record \in Records /\ Record = versions[Len(versions)]
           /\ \A r \in RecordViews : r \in Range(versions)
           /\ Range(versions) \subseteq Records
<1>1. Len(versions) \in Nat \ {0}
  OBVIOUS
<1> QED BY <1>1 DEF Record, RecordViews, Range

(* What any version grants, the record still grants. *)
LEMMA KeptByRecord ==
    ASSUME versions \in Seq(Records), versions # <<>>, RolesGrow,
           NEW r \in Range(versions)
    PROVE  r.roles \subseteq Record.roles
<1>1. PICK i \in 1..Len(versions) : r = versions[i]
  BY DEF Range
<1>2. Len(versions) \in 1..Len(versions) /\ i <= Len(versions)
  BY Latest
<1> QED BY <1>1, <1>2, Latest DEF RolesGrow

LEMMA InitInv == Init => IInv
<1> SUFFICES ASSUME Init PROVE IInv
  OBVIOUS
<1>1. PICK r \in InitialRecords : versions = <<r>>
  BY DEF Init
<1>2. r \in Records /\ Permitted(r)
  BY <1>1, RecordAssumption
<1>3. /\ versions \in Seq(Records) /\ Len(versions) = 1 /\ versions[1] = r /\ versions # <<>>
  BY <1>1, <1>2
<1>4. TypeOK
  BY <1>3, NoRecordType, ClockAssumption
     DEF Init, TypeOK, NoPending, Stages, TransactionStages
<1>5. RolesGrow /\ DangerousRolesExpire
  BY <1>2, <1>3 DEF RolesGrow, DangerousRolesExpire, Record
<1>6. ASSUME NEW g \in Grants PROVE GrantSound(g)
  BY DEF Init, GrantSound, NoPending, Changing, TransactionStages
<1> QED BY <1>4, <1>5, <1>6 DEF IInv

----------------------------------------------------------------------------
(* A step of the call itself leaves the record alone. *)

(* The value a grant proposes follows the one it read and holds its roles. *)
LEMMA NewValueFollows ==
    ASSUME TypeOK, NEW g \in Grants, DangerAdmissible(g)
    PROVE  /\ NewValue(g) \in Records
           /\ Follows(grant[g].old, NewValue(g))
           /\ Grant[g].roles \subseteq NewValue(g).roles
<1>1. /\ grant[g].old \in Records
      /\ grant[g].expiry \in Nat \cup {Unspecified}
  BY DEF TypeOK
<1>2. Grant[g].roles \subseteq Roles
  BY DEF Roles
<1>3. NewExpiry(g) \in Nat
  BY <1>1, NoRecordType DEF NewExpiry
<1>4. NewValue(g) \in Records
  BY <1>1, <1>2, <1>3, NoRecordType DEF NewValue, Records
<1> QED BY <1>1, <1>4 DEF NewValue, NewExpiry, Follows, DangerAdmissible

LEMMA CallType == TypeOK /\ (\E g \in Grants : GrantPermission(g)) => TypeOK'
<1> SUFFICES ASSUME TypeOK, NEW g \in Grants, GrantPermission(g) PROVE TypeOK'
  OBVIOUS
<1> USE DEF TypeOK
<1>1. CASE ReadRecord(g)
  <2>1. PICK r \in RecordViews, e \in Grant[g].expiries :
          grant' = [grant EXCEPT ![g] = [@ EXCEPT !.pc = "clock", !.old = r, !.expiry = e]]
    BY <1>1 DEF ReadRecord
  <2>2. r \in Records /\ e \in Nat \cup {Unspecified}
    BY Latest, GrantAssumption
  <2>3. "clock" \in Stages
    BY DEF Stages
  <2>4. UNCHANGED <<versions, clock, pending, tx>>
    BY <1>1 DEF ReadRecord
  <2> QED BY <2>1, <2>2, <2>3, <2>4
<1>2. CASE ReadClock(g)
  <2>1. {"returned", "propose"} \subseteq Stages
    BY DEF Stages, TransactionStages
  <2>2. CASE AlreadyGranted(g)
    <3>1. Goto(g, "returned") /\ UNCHANGED <<versions, clock, pending, tx>>
      BY <1>2, <2>2 DEF ReadClock
    <3> QED BY <2>1, <3>1 DEF Goto
  <2>3. CASE ~AlreadyGranted(g)
    <3>1. /\ DangerAdmissible(g)
          /\ grant' = [grant EXCEPT ![g] = [@ EXCEPT !.pc = "propose", !.new = NewValue(g)]]
          /\ UNCHANGED <<versions, clock, pending, tx>>
      BY <1>2, <2>3 DEF ReadClock
    <3>2. NewValue(g) \in Records
      BY <3>1, NewValueFollows
    <3> QED BY <2>1, <3>1, <3>2
  <2> QED BY <2>2, <2>3
<1>3. CASE Send(g)
  BY <1>3 DEF Send
<1>4. CASE Confirmed(g)
  <2>1. NextStage(grant[g].pc) \in Stages
    BY <1>4 DEF Confirmed, NextStage, Stages, TransactionStages
  <2> QED BY <1>4, <2>1 DEF Confirmed, Goto
<1>5. CASE ReadPending(g)
  BY <1>5 DEF ReadPending, Goto, Stages
<1>6. CASE TimelockReached(g)
  BY <1>6 DEF TimelockReached, Goto, Stages
<1>7. CASE LifetimeChecked(g)
  BY <1>7 DEF LifetimeChecked, Goto, Stages, TransactionStages
<1>8. CASE ReadBack(g)
  BY <1>8 DEF ReadBack, Goto, Stages
<1>9. CASE GiveUp(g)
  BY <1>9 DEF GiveUp, Goto, Stages
<1> QED BY <1>1, <1>2, <1>3, <1>4, <1>5, <1>6, <1>7, <1>8, <1>9 DEF GrantPermission

(* What a step of one grant leaves alone, it leaves sound. *)
LEMMA OthersSound ==
    ASSUME NEW h \in Grants, GrantSound(h), RolesGrow, TypeOK,
           grant'[h] = grant[h], tx'[h] = tx[h], pending'[h] = pending[h],
           Range(versions) \subseteq Range(versions'), Record.roles \subseteq Record'.roles
    PROVE  GrantSound(h)'
BY DEF GrantSound, Follows, Permitted, Exists

LEMMA CallSound ==
    ASSUME IInv, NEW g \in Grants, GrantPermission(g)
    PROVE  GrantSound(g)'
<1> USE DEF Changing, TransactionStages
<1>1. /\ UNCHANGED <<versions, clock, pending>>
      /\ Record' = Record
  BY DEF GrantPermission, ReadRecord, ReadClock, Send, Confirmed, ReadPending,
         TimelockReached, LifetimeChecked, ReadBack, GiveUp, Record
<1>2. /\ TypeOK /\ RolesGrow /\ GrantSound(g)
      /\ grant \in [Grants -> [pc : Stages, expiry : Nat \cup {Unspecified},
                               old : Records, new : Records]]
      /\ tx \in [Grants -> TransactionStages \cup {"none", "executed", "dropped"}]
      /\ versions \in Seq(Records) /\ versions # <<>>
  BY DEF IInv, TypeOK
<1>3. CASE ReadRecord(g)
  <2>1. PICK r \in RecordViews, e \in Grant[g].expiries :
          grant' = [grant EXCEPT ![g] = [@ EXCEPT !.pc = "clock", !.old = r, !.expiry = e]]
    BY <1>3 DEF ReadRecord
  <2>2. r \in Range(versions) /\ UNCHANGED tx /\ grant[g].pc = "record"
    BY <1>2, <1>3, Latest DEF ReadRecord, At
  <2>3. grant'[g].pc = "clock" /\ grant'[g].old = r
    BY <1>2, <2>1
  <2> QED BY <1>1, <1>2, <2>2, <2>3 DEF GrantSound
<1>4. CASE ReadClock(g) /\ AlreadyGranted(g)
  <2>1. grant'[g].pc = "returned" /\ UNCHANGED tx /\ grant[g].pc = "clock"
    BY <1>2, <1>4 DEF ReadClock, Goto, At
  <2>2. grant[g].old.roles \subseteq Record.roles
    BY <1>2, <2>1, KeptByRecord DEF GrantSound
  <2>3. Grant[g].roles \subseteq Record.roles
    BY <1>4, <2>2 DEF AlreadyGranted
  <2> QED BY <1>1, <1>2, <2>1, <2>3 DEF GrantSound
<1>5. CASE ReadClock(g) /\ ~AlreadyGranted(g)
  <2>1. /\ DangerAdmissible(g) /\ UNCHANGED tx /\ grant[g].pc = "clock"
        /\ grant' = [grant EXCEPT ![g] = [@ EXCEPT !.pc = "propose", !.new = NewValue(g)]]
    BY <1>5 DEF ReadClock, At
  <2>2. /\ grant'[g].pc = "propose" /\ grant'[g].old = grant[g].old
        /\ grant'[g].new = NewValue(g)
    BY <1>2, <2>1
  <2>3. Follows(grant[g].old, NewValue(g)) /\ Grant[g].roles \subseteq NewValue(g).roles
    BY <1>2, <2>1, NewValueFollows
  <2> QED BY <1>1, <1>2, <2>1, <2>2, <2>3 DEF GrantSound, Follows, Permitted, Exists
<1>6. CASE Send(g)
  <2>1. grant[g].pc \in TransactionStages /\ UNCHANGED grant
    BY <1>6 DEF Send
  <2> QED BY <1>1, <1>2, <2>1 DEF GrantSound, Follows, Permitted, Exists
<1>7. ASSUME /\ grant[g].pc \in Changing /\ tx'[g] \in {tx[g], "none"}
             /\ \E pc \in Changing \cup {"failed"} : grant' = [grant EXCEPT ![g].pc = pc]
      PROVE  GrantSound(g)'
  <2>1. /\ grant'[g].pc \in Changing \cup {"failed"}
        /\ grant'[g].old = grant[g].old /\ grant'[g].new = grant[g].new
    BY <1>2, <1>7
  <2> QED BY <1>1, <1>2, <1>7, <2>1 DEF GrantSound, Follows, Permitted, Exists
<1>8. CASE Confirmed(g)
  <2>1. NextStage(grant[g].pc) \in Changing /\ grant[g].pc \in Changing
    BY <1>8 DEF Confirmed, NextStage
  <2>2. grant' = [grant EXCEPT ![g].pc = NextStage(grant[g].pc)] /\ tx'[g] = "none"
    BY <1>2, <1>8 DEF Confirmed, Goto
  <2> QED BY <1>7, <2>1, <2>2
<1>9. CASE ReadPending(g)
  BY <1>7, <1>9 DEF ReadPending, Goto, At
<1>10. CASE TimelockReached(g)
  BY <1>7, <1>10 DEF TimelockReached, Goto, At
<1>11. CASE LifetimeChecked(g)
  BY <1>7, <1>11 DEF LifetimeChecked, Goto, At
<1>12. CASE ReadBack(g)
  <2>1. /\ grant'[g].pc = "returned" /\ UNCHANGED tx /\ grant[g].pc = "readback"
        /\ grant[g].new \in RecordViews /\ grant'[g].new = grant[g].new
        /\ grant'[g].old = grant[g].old
    BY <1>2, <1>12 DEF ReadBack, Goto, At
  <2>2. grant[g].new.roles \subseteq Record.roles
    BY <1>2, <2>1, Latest, KeptByRecord
  <2> QED BY <1>1, <1>2, <2>1, <2>2 DEF GrantSound, Follows, Permitted, Exists
<1>13. CASE GiveUp(g)
  <2>1. /\ grant'[g].pc = "failed" /\ UNCHANGED tx
        /\ grant'[g].new = grant[g].new /\ grant'[g].old = grant[g].old
    BY <1>2, <1>13 DEF GiveUp, Goto
  <2> QED BY <1>1, <1>2, <2>1 DEF GrantSound, Follows, Permitted, Exists
<1> QED BY <1>3, <1>4, <1>5, <1>6, <1>8, <1>9, <1>10, <1>11, <1>12, <1>13
        DEF GrantPermission

----------------------------------------------------------------------------
(* The program's steps. *)

(* A call changes nothing of another call's. *)
LEMMA OthersUntouched ==
    ASSUME TypeOK, NEW g \in Grants, GrantPermission(g)
    PROVE  /\ UNCHANGED <<versions, pending>>
           /\ \A h \in Grants \ {g} : grant'[h] = grant[h] /\ tx'[h] = tx[h]
BY DEF GrantPermission, ReadRecord, ReadClock, Send, Confirmed, ReadPending,
       TimelockReached, LifetimeChecked, ReadBack, GiveUp, Goto, TypeOK

LEMMA CallInv ==
    ASSUME IInv, NEW g \in Grants, GrantPermission(g)
    PROVE  IInv' /\ UNCHANGED versions
<1>1. TypeOK /\ TypeOK'
  BY CallType DEF IInv
<1>2. UNCHANGED <<versions, pending>>
  BY <1>1, OthersUntouched
<1>3. ASSUME NEW h \in Grants, h # g
      PROVE  grant'[h] = grant[h] /\ tx'[h] = tx[h]
  BY <1>1, <1>3, OthersUntouched
<1>4. ASSUME NEW h \in Grants, h # g PROVE GrantSound(h)'
  <2>1. Record' = Record /\ Range(versions') = Range(versions)
    BY <1>2 DEF Record
  <2> QED BY <1>1, <1>2, <1>3, <1>4, <2>1, OthersSound DEF IInv
<1>5. RolesGrow' /\ DangerousRolesExpire'
  BY <1>2 DEF IInv, RolesGrow, DangerousRolesExpire, Record
<1> QED BY <1>1, <1>2, <1>4, <1>5, CallSound DEF IInv

(* What is appended to the record is its successor. *)
LEMMA AppendedRecord ==
    ASSUME versions \in Seq(Records), versions # <<>>, NEW r \in Records,
           versions' = Append(versions, r)
    PROVE  /\ versions' \in Seq(Records) /\ versions' # <<>>
           /\ Len(versions') = Len(versions) + 1
           /\ Record' = r
           /\ \A i \in 1..Len(versions) : versions'[i] = versions[i]
           /\ versions'[Len(versions) + 1] = r
           /\ Range(versions) \subseteq Range(versions')
<1>1. /\ versions' \in Seq(Records) /\ versions' # <<>>
      /\ Len(versions') = Len(versions) + 1
      /\ \A i \in 1..Len(versions) : versions'[i] = versions[i]
      /\ versions'[Len(versions) + 1] = r
  OBVIOUS
<1> QED BY <1>1 DEF Record, Range

LEMMA ChangeInv ==
    ASSUME IInv, NEW g \in Grants, ExecuteChange(g)
    PROVE  IInv' /\ Follows(Record, Record') /\ Record' = versions'[Len(versions')]
<1>1. /\ TypeOK /\ RolesGrow /\ GrantSound(g)
      /\ versions \in Seq(Records) /\ versions # <<>>
      /\ pending \in [Grants -> [status : {"none", "proposed", "accepted", "closed"},
                                 from : Records, to : Records,
                                 executableAfter : Nat, expiresAt : Nat]]
      /\ tx \in [Grants -> TransactionStages \cup {"none", "executed", "dropped"}]
  BY DEF IInv, TypeOK
<1> DEFINE r == pending[g].to
<1>2. /\ versions' = Append(versions, r) /\ r \in Records
      /\ pending[g].from = Record /\ pending[g].status = "accepted"
      /\ pending' = [pending EXCEPT ![g].status = "closed"]
      /\ tx[g] = "apply" /\ tx' = [tx EXCEPT ![g] = "executed"]
      /\ UNCHANGED <<clock, grant>>
  BY <1>1 DEF ExecuteChange
<1>3. /\ versions' \in Seq(Records) /\ versions' # <<>>
      /\ Len(versions') = Len(versions) + 1
      /\ Record' = r
      /\ \A i \in 1..Len(versions) : versions'[i] = versions[i]
      /\ versions'[Len(versions) + 1] = r
      /\ Range(versions) \subseteq Range(versions')
  BY <1>1, <1>2, AppendedRecord
<1>4. Follows(Record, r)
  BY <1>1, <1>2 DEF GrantSound
<1>5. TypeOK'
  BY <1>1, <1>2, <1>3 DEF TypeOK
<1>6. Record.roles \subseteq Record'.roles /\ DangerousRolesExpire'
  BY <1>3, <1>4 DEF Follows, DangerousRolesExpire, Permitted
<1>7. RolesGrow'
  <2>1. ASSUME NEW i \in 1..Len(versions'), NEW j \in 1..Len(versions'), i <= j
        PROVE  versions'[i].roles \subseteq versions'[j].roles
    <3>1. CASE j <= Len(versions)
      <4>1. i \in 1..Len(versions) /\ j \in 1..Len(versions)
        BY <1>1, <1>3, <2>1, <3>1
      <4> QED BY <1>1, <1>3, <2>1, <4>1 DEF RolesGrow
    <3>2. CASE i <= Len(versions) /\ j = Len(versions) + 1
      <4>1. versions[i].roles \subseteq Record.roles
        BY <1>1, <3>2, KeptByRecord DEF Range
      <4> QED BY <1>3, <1>6, <3>2, <4>1
    <3>3. CASE i = j
      BY <3>3
    <3> QED BY <1>1, <1>3, <2>1, <3>1, <3>2, <3>3
  <2> QED BY <2>1 DEF RolesGrow
<1>8. ASSUME NEW h \in Grants, h # g PROVE GrantSound(h)'
  <2>1. grant'[h] = grant[h] /\ tx'[h] = tx[h] /\ pending'[h] = pending[h] /\ GrantSound(h)
    BY <1>1, <1>2, <1>8 DEF IInv
  <2> QED BY <1>1, <1>3, <1>6, <2>1, OthersSound
<1>9. GrantSound(g)'
  <2>1. /\ pending'[g].from = pending[g].from /\ pending'[g].to = pending[g].to
        /\ tx'[g] = "executed" /\ grant'[g] = grant[g]
    BY <1>1, <1>2
  <2> QED BY <1>1, <1>2, <1>3, <1>6, <2>1 DEF GrantSound, Follows, Permitted, Exists
<1> QED BY <1>3, <1>4, <1>5, <1>6, <1>7, <1>8, <1>9 DEF IInv, Record

LEMMA ProgramInv ==
    ASSUME IInv, NEW g \in Grants,
           ExecuteProposal(g) \/ ExecuteAcceptance(g) \/ DropTransaction(g)
    PROVE  IInv' /\ UNCHANGED versions
<1>1. /\ TypeOK /\ RolesGrow /\ GrantSound(g)
      /\ pending \in [Grants -> [status : {"none", "proposed", "accepted", "closed"},
                                 from : Records, to : Records,
                                 executableAfter : Nat, expiresAt : Nat]]
      /\ tx \in [Grants -> TransactionStages \cup {"none", "executed", "dropped"}]
      /\ clock \in Nat /\ grant[g].old \in Records /\ grant[g].new \in Records
  BY DEF IInv, TypeOK
<1>2. UNCHANGED <<versions, clock, grant>>
  BY DEF ExecuteProposal, ExecuteAcceptance, DropTransaction
<1>3. Record' = Record /\ Range(versions') = Range(versions)
      /\ RolesGrow' /\ DangerousRolesExpire'
  BY <1>2 DEF Record, IInv, RolesGrow, DangerousRolesExpire
<1>4. /\ pending' \in [Grants -> [status : {"none", "proposed", "accepted", "closed"},
                                  from : Records, to : Records,
                                  executableAfter : Nat, expiresAt : Nat]]
      /\ \A h \in Grants \ {g} : pending'[h] = pending[h] /\ tx'[h] = tx[h]
      /\ pending'[g].status # "none" => Follows(pending'[g].from, pending'[g].to)
  <2>1. CASE ExecuteProposal(g)
    <3> DEFINE change == [status |-> "proposed", from |-> grant[g].old, to |-> grant[g].new,
                          executableAfter |-> clock + Delay,
                          expiresAt |-> clock + Delay + Lifetime]
    <3>1. /\ pending' = [pending EXCEPT ![g] = change]
          /\ tx' = [tx EXCEPT ![g] = "executed"]
          /\ Follows(grant[g].old, grant[g].new)
      BY <1>1, <2>1 DEF ExecuteProposal, GrantSound
    <3>2. /\ change \in [status : {"none", "proposed", "accepted", "closed"},
                         from : Records, to : Records,
                         executableAfter : Nat, expiresAt : Nat]
          /\ change.from = grant[g].old /\ change.to = grant[g].new
      BY <1>1, ClockAssumption
    <3> HIDE DEF change
    <3> QED BY <1>1, <3>1, <3>2
  <2>2. CASE ExecuteAcceptance(g)
    <3>1. /\ pending' = [pending EXCEPT ![g].status = "accepted"]
          /\ tx' = [tx EXCEPT ![g] = "executed"]
          /\ Follows(pending[g].from, pending[g].to)
      BY <1>1, <2>2 DEF ExecuteAcceptance, GrantSound
    <3> QED BY <1>1, <3>1
  <2>3. CASE DropTransaction(g)
    BY <1>1, <2>3 DEF DropTransaction, GrantSound
  <2> QED BY <2>1, <2>2, <2>3
<1>5. /\ tx' \in [Grants -> TransactionStages \cup {"none", "executed", "dropped"}]
      /\ tx[g] # "none" /\ tx'[g] \in {"executed", "dropped"}
  BY <1>1 DEF ExecuteProposal, ExecuteAcceptance, DropTransaction, TransactionStages
<1>6. TypeOK'
  BY <1>1, <1>2, <1>4, <1>5 DEF TypeOK
<1>7. GrantSound(g)'
  BY <1>1, <1>2, <1>3, <1>4, <1>5 DEF GrantSound, Follows, Permitted, Exists
<1>8. ASSUME NEW h \in Grants, h # g PROVE GrantSound(h)'
  <2>1. grant'[h] = grant[h] /\ tx'[h] = tx[h] /\ pending'[h] = pending[h] /\ GrantSound(h)
    BY <1>2, <1>4, <1>8 DEF IInv
  <2> QED BY <1>1, <1>3, <2>1, OthersSound
<1> QED BY <1>2, <1>3, <1>6, <1>7, <1>8 DEF IInv

LEMMA TickInv == IInv /\ (Tick \/ UNCHANGED vars) => IInv' /\ UNCHANGED versions
<1> SUFFICES ASSUME IInv, Tick \/ UNCHANGED vars PROVE IInv' /\ UNCHANGED versions
  OBVIOUS
<1>1. UNCHANGED <<versions, pending, tx, grant>> /\ clock' \in 0..MaxClock
  BY ClockAssumption DEF Tick, vars, IInv, TypeOK
<1>2. TypeOK' /\ RolesGrow' /\ DangerousRolesExpire'
  BY <1>1 DEF IInv, TypeOK, RolesGrow, DangerousRolesExpire, Record
<1>3. ASSUME NEW h \in Grants PROVE GrantSound(h)'
  BY <1>1, <1>2 DEF IInv, GrantSound, Record, Follows, Permitted, Exists
<1> QED BY <1>1, <1>2, <1>3 DEF IInv

(* Every step keeps the invariant, and changes the record only to a follower. *)
LEMMA GrantStep ==
    IInv /\ [Next]_vars => /\ IInv'
                           /\ versions' # versions =>
                                Follows(Record, Record') /\ Record' = versions'[Len(versions')]
<1> SUFFICES ASSUME IInv, [Next]_vars
             PROVE  /\ IInv'
                    /\ versions' # versions =>
                         Follows(Record, Record') /\ Record' = versions'[Len(versions')]
  OBVIOUS
<1>1. CASE Tick \/ UNCHANGED vars
  BY <1>1, TickInv
<1>2. CASE \E g \in Grants : GrantPermission(g)
  BY <1>2, CallInv
<1>3. CASE \E g \in Grants : Program(g)
  BY <1>3, ChangeInv, ProgramInv DEF Program
<1> QED BY <1>1, <1>2, <1>3 DEF Next

(* The inductive invariant of grantPermission: a pending change was computed from a
   value the record has had, and the record's values follow each other without a
   role taken away. *)
THEOREM GrantInvariant == Spec => []IInv
<1>1. IInv /\ [Next]_vars => IInv'
  BY GrantStep
<1> QED BY InitInv, <1>1, PTL DEF Spec

(* Every variable keeps its type. *)
THEOREM GrantTypeOK == Spec => []TypeOK
<1>1. IInv => TypeOK
  BY DEF IInv
<1> QED BY <1>1, GrantInvariant, PTL

(* A grant that returned is in force: what it computed or found is a value the
   record has had, and roles are never taken away. *)
THEOREM GrantInForce == Spec => []ReturnedGrantHolds
<1>1. IInv => ReturnedGrantHolds
  BY DEF IInv, GrantSound, ReturnedGrantHolds, At
<1> QED BY <1>1, GrantInvariant, PTL

(* Dangerous roles always have a scope and an end, however grants interleave. *)
THEOREM DangerousRolesAlwaysExpire == Spec => []DangerousRolesExpire
<1>1. IInv => DangerousRolesExpire
  BY DEF IInv
<1> QED BY <1>1, GrantInvariant, PTL

(* No grant overwrites another: the old-value hash makes every change follow the
   record it is applied to. *)
THEOREM NoGrantIsLost == Spec => NoLostGrant
<1>1. IInv /\ [Next]_vars =>
        [versions' # versions =>
            LET next == versions'[Len(versions')] IN
            /\ next.generation = Record.generation + 1
            /\ Record.roles \subseteq next.roles
            /\ Exists(Record) => next.expiry = Record.expiry]_vars
  BY GrantStep DEF Follows
<1> QED BY <1>1, GrantInvariant, PTL DEF Spec, NoLostGrant

----------------------------------------------------------------------------
(* Setups. *)

(* A setup is a client of the grants: it only restricts when they run. *)
THEOREM SetupImplementsGrants == SetupSpec => Spec
<1>1. SetupInit => Init
  BY DEF SetupInit
<1>2. [SetupNext]_<<vars, setupVars>> => [Next]_vars
  BY DEF SetupNext, Next, vars
<1> QED BY <1>1, <1>2, PTL DEF SetupSpec, Spec

(* The pathway has had the testing profile. *)
Registered == "direct" \in Range(pathways)

AfterGrant == {"accounts", "balance", "mint", "funded", "returned"}

(* The faucet request of this setup has been executed and seen. *)
Minted(g) ==
    \/ SetupAt(g, "mint") /\ setupTx[g] = "executed"
    \/ setup[g].pc \in {"funded", "returned"}

(* A transaction that is out belongs to the stage that sent it, and each stage
   stands for what the stages before it have done. *)
SetupSound(g) ==
    /\ setup[g].pc \in {"pathway", "registered", "grant", "balance", "funded"} =>
         setupTx[g] = "none"
    /\ setup[g].pc \in SetupTransactions =>
         setupTx[g] \in {"none", setup[g].pc, "executed", "dropped"}
    /\ setup[g].pc \in {"grant"} \cup AfterGrant => Registered
    /\ setup[g].pc \in AfterGrant => At(g, "returned")
    /\ ~At(g, "record") \/ pending[g].status # "none" \/ tx[g] # "none" => Registered
    /\ setup[g].pc \in AfterGrant \ {"accounts"} => accounts
    /\ SetupAt(g, "accounts") /\ setupTx[g] = "executed" => accounts

(* Every faucet request that a setup has seen executed is in the balance. *)
FaucetSound == balances[Len(balances)] >= Amount * Cardinality({g \in Setups : Minted(g)})

(* The inductive invariant of the setups. *)
SInv == SetupTypeOK /\ (\A g \in Setups : SetupSound(g)) /\ FaucetSound

LEMMA AtLeastTimes ==
    ASSUME NEW a \in Nat, NEW m \in Nat, NEW n \in Nat, m <= n
    PROVE  a * m <= a * n /\ a * (n + 1) = a * n + a /\ a * n \in Nat
<1>1. PICK d \in Nat : n = m + d
  <2>1. n - m \in Nat /\ n = m + (n - m)
    OBVIOUS
  <2> QED BY <2>1
<1>2. a * (m + d) = a * m + a * d /\ a * d >= 0 /\ a * m \in Nat /\ a * d \in Nat
  BY SMT
<1>3. a * (n + 1) = a * n + a /\ a * n \in Nat
  BY SMT
<1> QED BY <1>1, <1>2, <1>3

LEMMA SetupInitInv == SetupInit => SInv
<1> SUFFICES ASSUME SetupInit PROVE SInv
  OBVIOUS
<1>1. PICK p \in InitialPathways : pathways = <<p>>
  BY DEF SetupInit
<1>2. SetupTypeOK
  <2>1. pathways \in Seq(PathwayKinds) /\ pathways # <<>>
    BY <1>1, SetupAssumption
  <2>2. setup \in [Setups -> [pc : SetupStages, previous : Nat]]
    BY DEF SetupInit, SetupStages
  <2>3. accounts \in BOOLEAN
    BY DEF SetupInit
  <2>4. balances \in Seq(Nat) /\ balances # <<>>
    BY DEF SetupInit
  <2>5. setupTx \in [Setups -> SetupTransactions \cup {"none", "executed", "dropped"}]
    BY DEF SetupInit
  <2> QED BY <2>1, <2>2, <2>3, <2>4, <2>5 DEF SetupTypeOK
<1>3. ASSUME NEW g \in Setups PROVE SetupSound(g)
  BY SetupAssumption
     DEF SetupInit, SetupSound, SetupTransactions, AfterGrant, Init, At, SetupAt, NoPending
<1>4. {g \in Setups : Minted(g)} = {}
  BY DEF SetupInit, Minted, SetupAt
<1>5. FaucetSound
  <2>1. balances[Len(balances)] = 0
    BY DEF SetupInit
  <2>2. Cardinality({g \in Setups : Minted(g)}) = 0
    BY <1>4, FS_EmptySet
  <2> QED BY <2>1, <2>2, SetupAssumption DEF FaucetSound
<1> QED BY <1>2, <1>3, <1>5 DEF SInv

(* The faucet's promise, when no more than one setup sees a request executed and
   the balance has grown by an amount for it. *)
LEMMA FaucetKept ==
    ASSUME SetupTypeOK, FaucetSound,
           \/ /\ \A h \in Setups : Minted(h)' => Minted(h)
              /\ balances' = balances
           \/ \E g \in Setups :
                /\ \A h \in Setups : Minted(h)' => Minted(h) \/ h = g
                /\ balances' = Append(balances, balances[Len(balances)] + Amount)
    PROVE  FaucetSound'
<1> DEFINE M == {h \in Setups : Minted(h)}
           N == {h \in Setups : Minted(h)'}
<1>1. /\ IsFiniteSet(M) /\ IsFiniteSet(N)
      /\ Cardinality(M) \in Nat /\ Cardinality(N) \in Nat /\ Amount \in Nat
  <2>1. M \subseteq Setups /\ N \subseteq Setups /\ IsFiniteSet(Setups) /\ Amount \in Nat
    BY SetupAssumption
  <2> HIDE DEF M, N
  <2> QED BY <2>1, FS_Subset, FS_CardinalityType
<1>2. Len(balances) \in Nat \ {0} /\ balances[Len(balances)] \in Nat
  BY DEF SetupTypeOK
<1>3. CASE N \subseteq M /\ balances' = balances
  <2>1. Cardinality(N) <= Cardinality(M)
    BY <1>1, <1>3, FS_Subset
  <2>2. Amount * Cardinality(N) <= Amount * Cardinality(M)
        /\ Amount * Cardinality(M) \in Nat /\ Amount * Cardinality(N) \in Nat
    BY <1>1, <2>1, AtLeastTimes
  <2> QED BY <1>2, <1>3, <2>2 DEF FaucetSound
<1>4. CASE \E g \in Setups : /\ N \subseteq M \cup {g}
                             /\ balances' = Append(balances, balances[Len(balances)] + Amount)
  <2>1. PICK g \in Setups : /\ N \subseteq M \cup {g}
                            /\ balances' = Append(balances, balances[Len(balances)] + Amount)
    BY <1>4
  <2>2. IsFiniteSet(M \cup {g}) /\ Cardinality(M \cup {g}) <= Cardinality(M) + 1
        /\ Cardinality(M \cup {g}) \in Nat
    <3> HIDE DEF M
    <3>1. /\ IsFiniteSet(M \cup {g})
          /\ Cardinality(M \cup {g}) =
               IF g \in M THEN Cardinality(M) ELSE Cardinality(M) + 1
      BY <1>1, FS_AddElement
    <3> QED BY <1>1, <3>1
  <2>3. Cardinality(N) <= Cardinality(M) + 1
    BY <1>1, <2>1, <2>2, FS_Subset
  <2>4. Amount * Cardinality(N) <= Amount * (Cardinality(M) + 1)
        /\ Amount * Cardinality(N) \in Nat
    BY <1>1, <2>3, AtLeastTimes
  <2>5. Amount * (Cardinality(M) + 1) = Amount * Cardinality(M) + Amount
        /\ Amount * Cardinality(M) \in Nat
    BY <1>1, AtLeastTimes
  <2>6. balances'[Len(balances')] = balances[Len(balances)] + Amount
    BY <1>1, <1>2, <2>1 DEF SetupTypeOK
  <2> QED BY <1>1, <1>2, <2>4, <2>5, <2>6 DEF FaucetSound
<1> QED BY <1>3, <1>4

(* What a node answers is something the history holds. *)
LEMMA SetupViews ==
    ASSUME SetupTypeOK
    PROVE  /\ Views(pathways) \subseteq Range(pathways) /\ Range(pathways) \subseteq PathwayKinds
           /\ Views(balances) \subseteq Nat
BY DEF SetupTypeOK, Views, Range

(* A setup whose own state is left alone stays sound while nothing is undone. *)
LEMMA OtherSetupsSound ==
    ASSUME NEW h \in Setups, SetupSound(h),
           setup'[h] = setup[h], setupTx'[h] = setupTx[h],
           grant'[h] = grant[h], tx'[h] = tx[h], pending'[h] = pending[h],
           Registered => Registered', accounts => accounts'
    PROVE  SetupSound(h)'
BY DEF SetupSound, SetupAt, At

(* A step of the setup's call. *)
LEMMA SetupCallInv ==
    ASSUME SInv, NEW g \in Setups, SetupDirectTesting(g), UNCHANGED vars
    PROVE  SInv'
<1> USE DEF SetupAt, SetupTransactions, AfterGrant
<1>1. /\ SetupTypeOK /\ SetupSound(g) /\ FaucetSound
      /\ setup \in [Setups -> [pc : SetupStages, previous : Nat]]
      /\ setupTx \in [Setups -> SetupTransactions \cup {"none", "executed", "dropped"}]
  BY DEF SInv, SetupTypeOK
<1>2. UNCHANGED <<pathways, accounts, balances>>
  BY DEF SetupDirectTesting, ReadPathway, SendSetup, SetupConfirmed, ReadRegistered,
         GrantEnded, ReadBalance, ReadFunded, Abandon
<1>3. Registered' = Registered /\ grant' = grant /\ tx' = tx /\ pending' = pending
  BY <1>2 DEF Registered, vars
<1> DEFINE Kept == setup' = [setup EXCEPT ![g] = setup'[g]]
                     /\ setupTx' = [setupTx EXCEPT ![g] = setupTx'[g]]
           Sound == /\ setup'[g] \in [pc : SetupStages, previous : Nat]
                    /\ setupTx'[g] \in SetupTransactions \cup {"none", "executed", "dropped"}
                    /\ SetupSound(g)' /\ (Minted(g)' => Minted(g))
<1>4. Kept /\ Sound => SInv'
  <2> SUFFICES ASSUME Kept, Sound PROVE SInv'
    OBVIOUS
  <2>1. SetupTypeOK'
    BY <1>1, <1>2 DEF SetupTypeOK
  <2>2. ASSUME NEW h \in Setups, h # g
        PROVE  SetupSound(h)' /\ (Minted(h)' => Minted(h))
    <3>1. setup'[h] = setup[h] /\ setupTx'[h] = setupTx[h]
      BY <1>1, <2>2
    <3>2. SetupSound(h)
      BY DEF SInv
    <3> QED BY <1>2, <1>3, <3>1, <3>2, OtherSetupsSound DEF Minted
  <2>3. FaucetSound'
    BY <1>1, <1>2, <2>2, FaucetKept
  <2> QED BY <2>1, <2>2, <2>3 DEF SInv
<1>5. ASSUME NEW pc \in SetupStages, SetupGoto(g, pc), UNCHANGED setupTx
      PROVE  /\ Kept /\ setup'[g].pc = pc /\ setupTx'[g] = setupTx[g]
             /\ setup'[g] \in [pc : SetupStages, previous : Nat]
             /\ setupTx'[g] \in SetupTransactions \cup {"none", "executed", "dropped"}
  BY <1>1, <1>5 DEF SetupGoto
<1>6. CASE ReadPathway(g)
  <2>1. PICK p \in Views(pathways) :
          SetupGoto(g, IF p = "none" THEN "register"
                       ELSE IF Matches(p) THEN "grant" ELSE "failed")
    BY <1>6 DEF ReadPathway
  <2>2. p = "direct" => Registered
    BY <1>1, SetupViews DEF Registered
  <2>3. PICK pc \in {"register", "grant", "failed"} :
          SetupGoto(g, pc) /\ (pc = "grant" => Registered)
    BY <2>1, <2>2 DEF Matches
  <2>4. setup[g].pc = "pathway" /\ UNCHANGED setupTx
    BY <1>6 DEF ReadPathway
  <2>5. /\ Kept /\ setup'[g].pc = pc /\ setupTx'[g] = setupTx[g]
        /\ setup'[g] \in [pc : SetupStages, previous : Nat]
        /\ setupTx'[g] \in SetupTransactions \cup {"none", "executed", "dropped"}
    BY <1>5, <2>3, <2>4 DEF SetupStages
  <2>6. Sound
    BY <1>1, <1>2, <1>3, <2>3, <2>4, <2>5 DEF SetupSound, Minted, At
  <2> QED BY <1>4, <2>5, <2>6
<1>7. CASE ReadRegistered(g)
  <2>1. PICK p \in Views(pathways) : SetupGoto(g, IF Matches(p) THEN "grant" ELSE "failed")
    BY <1>7 DEF ReadRegistered
  <2>2. p = "direct" => Registered
    BY <1>1, SetupViews DEF Registered
  <2>3. PICK pc \in {"grant", "failed"} : SetupGoto(g, pc) /\ (pc = "grant" => Registered)
    BY <2>1, <2>2 DEF Matches
  <2>4. setup[g].pc = "registered" /\ UNCHANGED setupTx
    BY <1>7 DEF ReadRegistered
  <2>5. /\ Kept /\ setup'[g].pc = pc /\ setupTx'[g] = setupTx[g]
        /\ setup'[g] \in [pc : SetupStages, previous : Nat]
        /\ setupTx'[g] \in SetupTransactions \cup {"none", "executed", "dropped"}
    BY <1>5, <2>3, <2>4 DEF SetupStages
  <2>6. Sound
    BY <1>1, <1>2, <1>3, <2>3, <2>4, <2>5 DEF SetupSound, Minted, At
  <2> QED BY <1>4, <2>5, <2>6
<1>8. CASE SendSetup(g)
  <2>1. /\ setup[g].pc \in SetupTransactions /\ setupTx[g] = "none"
        /\ setupTx' = [setupTx EXCEPT ![g] = setup[g].pc] /\ UNCHANGED setup
    BY <1>8 DEF SendSetup
  <2>2. Kept /\ setupTx'[g] = setup[g].pc /\ setup'[g] = setup[g]
    BY <1>1, <2>1
  <2>3. Sound
    BY <1>1, <1>2, <1>3, <2>1, <2>2 DEF SetupSound, Minted, At
  <2> QED BY <1>4, <2>2, <2>3
<1>9. CASE SetupConfirmed(g)
  <2> DEFINE next == NextSetupStage[setup[g].pc]
  <2>1. /\ setup[g].pc \in SetupTransactions /\ setupTx[g] = "executed"
        /\ setup' = [setup EXCEPT ![g].pc = next]
        /\ setupTx' = [setupTx EXCEPT ![g] = "none"]
    BY <1>9 DEF SetupConfirmed, SetupGoto
  <2>2. /\ setup[g].pc = "register" => next = "registered"
        /\ setup[g].pc = "accounts" => next = "balance"
        /\ setup[g].pc = "mint" => next = "funded"
    BY DEF NextSetupStage
  <2>3. next \in SetupStages
    BY <2>1, <2>2 DEF SetupStages
  <2> HIDE DEF next
  <2>4. /\ Kept /\ setupTx'[g] = "none" /\ setup'[g].pc = next
        /\ setup'[g] \in [pc : SetupStages, previous : Nat]
    BY <1>1, <2>1, <2>3
  <2>5. Sound
    BY <1>1, <1>2, <1>3, <2>1, <2>2, <2>4 DEF SetupSound, Minted, At
  <2> QED BY <1>4, <2>4, <2>5
<1>10. CASE GrantEnded(g)
  <2>1. PICK pc \in {"accounts", "failed"} :
          SetupGoto(g, pc) /\ (pc = "accounts" => At(g, "returned"))
    BY <1>10 DEF GrantEnded
  <2>2. setup[g].pc = "grant" /\ UNCHANGED setupTx
    BY <1>10 DEF GrantEnded
  <2>3. /\ Kept /\ setup'[g].pc = pc /\ setupTx'[g] = setupTx[g]
        /\ setup'[g] \in [pc : SetupStages, previous : Nat]
        /\ setupTx'[g] \in SetupTransactions \cup {"none", "executed", "dropped"}
    BY <1>5, <2>1, <2>2 DEF SetupStages
  <2>4. Sound
    BY <1>1, <1>2, <1>3, <2>1, <2>2, <2>3 DEF SetupSound, Minted, At
  <2> QED BY <1>4, <2>3, <2>4
<1>11. CASE ReadBalance(g)
  <2>1. PICK b \in Views(balances) :
          setup' = [setup EXCEPT ![g] = [@ EXCEPT !.pc = "mint", !.previous = b]]
    BY <1>11 DEF ReadBalance
  <2>2. setup[g].pc = "balance" /\ UNCHANGED setupTx /\ b \in Nat
    BY <1>1, <1>11, SetupViews DEF ReadBalance
  <2>3. /\ Kept /\ setup'[g].pc = "mint" /\ setupTx'[g] = setupTx[g]
        /\ setup'[g] \in [pc : SetupStages, previous : Nat]
        /\ setupTx'[g] \in SetupTransactions \cup {"none", "executed", "dropped"}
    BY <1>1, <2>1, <2>2 DEF SetupStages
  <2>4. Sound
    BY <1>1, <1>2, <1>3, <2>2, <2>3 DEF SetupSound, Minted, At
  <2> QED BY <1>4, <2>3, <2>4
<1>12. CASE ReadFunded(g)
  <2>1. PICK pc \in {"returned", "failed"} : SetupGoto(g, pc)
    BY <1>12 DEF ReadFunded
  <2>2. setup[g].pc = "funded" /\ UNCHANGED setupTx
    BY <1>12 DEF ReadFunded
  <2>3. /\ Kept /\ setup'[g].pc = pc /\ setupTx'[g] = setupTx[g]
        /\ setup'[g] \in [pc : SetupStages, previous : Nat]
        /\ setupTx'[g] \in SetupTransactions \cup {"none", "executed", "dropped"}
    BY <1>5, <2>1, <2>2 DEF SetupStages
  <2>4. Sound
    BY <1>1, <1>2, <1>3, <2>2, <2>3 DEF SetupSound, Minted, At
  <2> QED BY <1>4, <2>3, <2>4
<1>13. CASE Abandon(g)
  <2>1. SetupGoto(g, "failed") /\ UNCHANGED setupTx
    BY <1>13 DEF Abandon
  <2>2. /\ Kept /\ setup'[g].pc = "failed" /\ setupTx'[g] = setupTx[g]
        /\ setup'[g] \in [pc : SetupStages, previous : Nat]
        /\ setupTx'[g] \in SetupTransactions \cup {"none", "executed", "dropped"}
    BY <1>5, <2>1 DEF SetupStages
  <2>3. Sound
    BY <1>1, <1>2, <1>3, <2>2 DEF SetupSound, Minted, At
  <2> QED BY <1>4, <2>2, <2>3
<1> QED BY <1>6, <1>7, <1>8, <1>9, <1>10, <1>11, <1>12, <1>13 DEF SetupDirectTesting

(* What is appended to the pathway's history stays beside what was there. *)
LEMMA AppendedPathway ==
    ASSUME SetupTypeOK, NEW p \in PathwayKinds, pathways' = Append(pathways, p)
    PROVE  /\ pathways' \in Seq(PathwayKinds) /\ pathways' # <<>>
           /\ Registered => Registered'
<1>1. pathways \in Seq(PathwayKinds)
  BY DEF SetupTypeOK
<1>2. /\ pathways' \in Seq(PathwayKinds) /\ pathways' # <<>>
      /\ Len(pathways') = Len(pathways) + 1
      /\ \A i \in 1..Len(pathways) : pathways'[i] = pathways[i]
  BY <1>1
<1>3. ASSUME Registered PROVE Registered'
  <2>1. PICK i \in 1..Len(pathways) : pathways[i] = "direct"
    BY <1>1, <1>3 DEF Registered, Range
  <2>2. i \in DOMAIN pathways' /\ pathways'[i] = "direct"
    BY <1>1, <1>2, <2>1
  <2> QED BY <2>2 DEF Registered, Range
<1> QED BY <1>2, <1>3

(* A step of the programs that execute a setup's transactions. *)
LEMMA ProgramsInv ==
    ASSUME SInv, NEW g \in Setups, Programs(g), UNCHANGED vars
    PROVE  SInv'
<1> USE DEF SetupAt, SetupTransactions, AfterGrant
<1>1. /\ SetupTypeOK /\ SetupSound(g) /\ FaucetSound
      /\ setup \in [Setups -> [pc : SetupStages, previous : Nat]]
      /\ setupTx \in [Setups -> SetupTransactions \cup {"none", "executed", "dropped"}]
      /\ balances \in Seq(Nat) /\ balances # <<>>
  BY DEF SInv, SetupTypeOK
<1>2. /\ UNCHANGED setup /\ setupTx[g] \in SetupTransactions
      /\ \E t \in {"executed", "dropped"} : setupTx' = [setupTx EXCEPT ![g] = t]
  BY DEF Programs, ExecuteRegistration, ExecuteAccounts, ExecuteMint,
         DropSetupTransaction, Executed
<1>3. /\ setupTx' \in [Setups -> SetupTransactions \cup {"none", "executed", "dropped"}]
      /\ setupTx'[g] \in {"executed", "dropped"}
      /\ \A h \in Setups \ {g} : setupTx'[h] = setupTx[h]
  BY <1>1, <1>2
<1>4. grant' = grant /\ tx' = tx /\ pending' = pending
  BY DEF vars
<1>5. /\ pathways' \in Seq(PathwayKinds) /\ pathways' # <<>> /\ (Registered => Registered')
      /\ accounts' \in BOOLEAN /\ (accounts => accounts')
      /\ setupTx[g] = "accounts" /\ setupTx'[g] = "executed" => accounts'
      /\ balances' \in Seq(Nat) /\ balances' # <<>>
  <2>1. CASE ExecuteRegistration(g)
    <3>1. pathways' = Append(pathways, "direct") /\ UNCHANGED <<accounts, balances>>
          /\ setupTx[g] = "register"
      BY <2>1 DEF ExecuteRegistration
    <3> QED BY <1>1, <3>1, AppendedPathway DEF PathwayKinds, SetupTypeOK
  <2>2. CASE ExecuteAccounts(g)
    <3>1. accounts' = TRUE /\ UNCHANGED <<pathways, balances>>
      BY <2>2 DEF ExecuteAccounts
    <3> QED BY <1>1, <3>1 DEF SetupTypeOK, Registered
  <2>3. CASE ExecuteMint(g)
    <3>1. /\ balances' = Append(balances, balances[Len(balances)] + Amount)
          /\ UNCHANGED <<pathways, accounts>> /\ setupTx[g] = "mint"
      BY <2>3 DEF ExecuteMint
    <3>2. balances[Len(balances)] + Amount \in Nat
      BY <1>1, SetupAssumption
    <3>3. balances' \in Seq(Nat) /\ balances' # <<>>
      BY <1>1, <3>1, <3>2
    <3> QED BY <1>1, <3>1, <3>3 DEF SetupTypeOK, Registered
  <2>4. CASE DropSetupTransaction(g)
    <3>1. UNCHANGED <<pathways, accounts, balances>> /\ setupTx' = [setupTx EXCEPT ![g] = "dropped"]
      BY <2>4 DEF DropSetupTransaction
    <3>2. setupTx'[g] = "dropped"
      BY <1>1, <3>1
    <3> QED BY <1>1, <3>1, <3>2 DEF SetupTypeOK, Registered
  <2> QED BY <2>1, <2>2, <2>3, <2>4 DEF Programs
<1>6. SetupTypeOK'
  BY <1>1, <1>2, <1>3, <1>5 DEF SetupTypeOK
<1>7. SetupSound(g)'
  BY <1>1, <1>2, <1>3, <1>4, <1>5 DEF SetupSound, At
<1>8. ASSUME NEW h \in Setups, h # g
      PROVE  SetupSound(h)' /\ (Minted(h)' => Minted(h))
  <2>1. setup'[h] = setup[h] /\ setupTx'[h] = setupTx[h] /\ SetupSound(h)
    BY <1>2, <1>3, <1>8 DEF SInv
  <2> QED BY <1>4, <1>5, <2>1, OtherSetupsSound DEF Minted
<1>9. FaucetSound'
  <2>1. CASE ExecuteMint(g)
    <3>1. balances' = Append(balances, balances[Len(balances)] + Amount)
      BY <2>1 DEF ExecuteMint
    <3> QED BY <1>1, <1>8, <3>1, FaucetKept
  <2>2. CASE ~ExecuteMint(g)
    <3>1. UNCHANGED balances
      BY <2>2 DEF Programs, ExecuteRegistration, ExecuteAccounts, DropSetupTransaction
    <3>2. setupTx'[g] = "executed" => setupTx[g] \in {"register", "accounts"}
      BY <1>1, <2>2 DEF Programs, ExecuteRegistration, ExecuteAccounts, DropSetupTransaction
    <3>3. Minted(g)' => Minted(g)
      BY <1>1, <1>2, <3>2 DEF Minted, SetupSound
    <3> QED BY <1>1, <1>8, <3>1, <3>3, FaucetKept
  <2> QED BY <2>1, <2>2
<1> QED BY <1>6, <1>7, <1>8, <1>9 DEF SInv

(* The administration the testers share. *)
LEMMA AdministerInv ==
    ASSUME SInv, Administer, UNCHANGED vars
    PROVE  SInv'
<1>1. SetupTypeOK /\ FaucetSound /\ UNCHANGED <<accounts, balances, setupTx, setup>>
  BY DEF SInv, Administer
<1>2. \E p \in PathwayKinds : pathways' = Append(pathways, p)
  BY DEF Administer, PathwayKinds
<1>3. /\ pathways' \in Seq(PathwayKinds) /\ pathways' # <<>>
      /\ Registered => Registered'
  BY <1>1, <1>2, AppendedPathway
<1>4. ASSUME NEW h \in Setups PROVE SetupSound(h)' /\ (Minted(h)' => Minted(h))
  <2>1. SetupSound(h) /\ grant' = grant /\ tx' = tx /\ pending' = pending
    BY DEF SInv, vars
  <2> QED BY <1>1, <1>3, <2>1, OtherSetupsSound DEF Minted, SetupAt
<1>5. SetupTypeOK'
  BY <1>1, <1>3 DEF SetupTypeOK
<1> QED BY <1>1, <1>4, <1>5, FaucetKept DEF SInv

(* A step of a grant, of a bare one or of a setup's. *)
LEMMA GrantKeepsSetups ==
    ASSUME SInv, IInv, UNCHANGED setupVars,
           \/ Tick \/ UNCHANGED vars
           \/ \E g \in Grants : Program(g)
           \/ \E g \in Grants : (g \in Setups => SetupAt(g, "grant")) /\ GrantPermission(g)
    PROVE  SInv'
<1>1. UNCHANGED <<pathways, accounts, balances, setupTx, setup>> /\ TypeOK
  BY DEF setupVars, IInv
<1>2. SetupTypeOK' /\ FaucetSound' /\ Registered' = Registered
  BY <1>1 DEF SInv, SetupTypeOK, FaucetSound, Minted, SetupAt, Registered
<1>3. ASSUME NEW h \in Setups PROVE SetupSound(h)'
  <2>1. SetupSound(h) /\ h \in Grants
    BY SetupAssumption DEF SInv
  <2>2. CASE grant'[h] = grant[h] /\ tx'[h] = tx[h] /\ pending'[h] = pending[h]
    BY <1>1, <1>2, <2>1, <2>2, OtherSetupsSound
  <2>3. CASE Tick \/ UNCHANGED vars
    BY <2>2, <2>3 DEF Tick, vars
  <2>4. ASSUME NEW g \in Grants, Program(g) PROVE SetupSound(h)'
    <3>1. CASE h # g
      <4>1. grant'[h] = grant[h] /\ tx'[h] = tx[h] /\ pending'[h] = pending[h]
        BY <1>1, <2>1, <2>4, <3>1
           DEF Program, ExecuteProposal, ExecuteAcceptance, ExecuteChange, DropTransaction, TypeOK
      <4> QED BY <2>2, <4>1
    <3>2. CASE h = g
      <4>1. tx[h] # "none" /\ UNCHANGED grant
        BY <2>4, <3>2
           DEF Program, ExecuteProposal, ExecuteAcceptance, ExecuteChange, DropTransaction,
               TransactionStages
      <4>2. Registered
        BY <2>1, <4>1 DEF SetupSound
      <4> QED BY <1>1, <1>2, <2>1, <4>1, <4>2 DEF SetupSound, SetupAt, At
    <3> QED BY <3>1, <3>2
  <2>5. ASSUME NEW g \in Grants, g \in Setups => SetupAt(g, "grant"), GrantPermission(g)
        PROVE  SetupSound(h)'
    <3>1. CASE h # g
      <4>1. grant'[h] = grant[h] /\ tx'[h] = tx[h] /\ pending'[h] = pending[h]
        BY <1>1, <2>1, <2>5, <3>1, OthersUntouched
      <4> QED BY <2>2, <4>1
    <3>2. CASE h = g
      <4>1. Registered /\ setup[h].pc = "grant"
        BY <2>1, <2>5, <3>2 DEF SetupSound, SetupAt
      <4> QED BY <1>1, <1>2, <2>1, <4>1
              DEF SetupSound, SetupAt, AfterGrant, SetupTransactions
    <3> QED BY <3>1, <3>2
  <2> QED BY <2>3, <2>4, <2>5
<1> QED BY <1>2, <1>3 DEF SInv

LEMMA SetupStep == SInv /\ IInv /\ [SetupNext]_<<vars, setupVars>> => SInv'
<1> SUFFICES ASSUME SInv, IInv, [SetupNext]_<<vars, setupVars>> PROVE SInv'
  OBVIOUS
<1>1. CASE UNCHANGED <<vars, setupVars>>
  BY <1>1, GrantKeepsSetups
<1>2. CASE Administer /\ UNCHANGED vars
  BY <1>2, AdministerInv
<1>3. CASE (\E g \in Setups : SetupDirectTesting(g) \/ Programs(g)) /\ UNCHANGED vars
  BY <1>3, SetupCallInv, ProgramsInv
<1>4. CASE /\ \/ Tick
              \/ \E g \in Grants : Program(g)
              \/ \E g \in Grants : (g \in Setups => SetupAt(g, "grant")) /\ GrantPermission(g)
           /\ UNCHANGED setupVars
  BY <1>4, GrantKeepsSetups
<1> QED BY <1>1, <1>2, <1>3, <1>4 DEF SetupNext

(* The inductive invariant of setupDirectTesting over that of its grants: each stage
   of Setup.ts is reached only with what the stages before it have put on the chain,
   and every executed faucet request is in the balance. *)
THEOREM SetupInvariant == SetupSpec => [](IInv /\ SInv)
<1>1. SInv /\ IInv /\ [SetupNext]_<<vars, setupVars>> => SInv'
  BY SetupStep
<1>2. SetupSpec => []IInv
  BY SetupImplementsGrants, GrantInvariant, PTL
<1> QED BY <1>1, <1>2, SetupInitInv, PTL DEF SetupSpec

(* Every variable of a setup, and of its grants, keeps its type. *)
THEOREM SetupTypes == SetupSpec => [](TypeOK /\ SetupTypeOK)
<1>1. IInv /\ SInv => TypeOK /\ SetupTypeOK
  BY DEF IInv, SInv
<1> QED BY <1>1, SetupInvariant, PTL

(* Roles are proposed for no pathway that never had the testing profile. *)
THEOREM SetupGrantsOnTheProfile == SetupSpec => []GrantsOnlyOnTheProfile
<1>1. SInv => GrantsOnlyOnTheProfile
  BY DEF SInv, SetupSound, GrantsOnlyOnTheProfile, Registered
<1> QED BY <1>1, SetupInvariant, PTL

(* A setup that returned is complete: its roles are in force, its pathway has had
   the profile, its accounts exist and its faucet request is its own. *)
THEOREM SetupIsComplete == SetupSpec => []ReturnedSetupIsComplete
<1>1. ASSUME IInv, SInv PROVE ReturnedSetupIsComplete
  <2>1. ASSUME NEW g \in Setups, SetupAt(g, "returned")
        PROVE  /\ Grant[g].roles \subseteq Record.roles
               /\ "direct" \in Range(pathways)
               /\ accounts
    <3>1. SetupSound(g) /\ GrantSound(g)
      BY <1>1, SetupAssumption DEF SInv, IInv
    <3> QED BY <2>1, <3>1 DEF SetupSound, GrantSound, SetupAt, At, AfterGrant, Registered
  <2>2. balances[Len(balances)] >= Amount * Cardinality({g \in Setups : SetupAt(g, "returned")})
    <3> DEFINE M == {g \in Setups : Minted(g)}
               R == {g \in Setups : SetupAt(g, "returned")}
    <3>1. R \subseteq M /\ IsFiniteSet(M)
      <4>1. R \subseteq M /\ M \subseteq Setups
        BY DEF SetupAt, Minted
      <4> HIDE DEF R, M
      <4> QED BY <4>1, FS_Subset, SetupAssumption
    <3>2. Cardinality(R) <= Cardinality(M) /\ Cardinality(R) \in Nat /\ Cardinality(M) \in Nat
      <4> HIDE DEF R, M
      <4> QED BY <3>1, FS_Subset, FS_CardinalityType
    <3>3. /\ Amount * Cardinality(R) <= Amount * Cardinality(M)
          /\ Amount * Cardinality(R) \in Nat /\ Amount * Cardinality(M) \in Nat
      BY <3>2, AtLeastTimes, SetupAssumption
    <3>4. balances[Len(balances)] >= Amount * Cardinality(M) /\ balances[Len(balances)] \in Nat
      BY <1>1 DEF SInv, FaucetSound, SetupTypeOK
    <3> QED BY <3>3, <3>4
  <2> QED BY <2>1, <2>2 DEF ReturnedSetupIsComplete
<1> QED BY <1>1, SetupInvariant, PTL

(* What holds of grants alone holds of the grants a setup makes. *)
THEOREM SetupKeepsGrants ==
    SetupSpec => [](ReturnedGrantHolds /\ DangerousRolesExpire) /\ NoLostGrant
BY SetupImplementsGrants, GrantInForce, DangerousRolesAlwaysExpire, NoGrantIsLost, PTL
=============================================================================
