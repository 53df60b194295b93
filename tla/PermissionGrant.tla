--------------------------- MODULE PermissionGrant ---------------------------
(***************************************************************************)
(* grantPermission of the devnet tools: adding roles to one permission     *)
(* record through the program's two-step configuration change.             *)
(*                                                                         *)
(* A grant reads the record, computes the new value and its hash, proposes *)
(* the change, waits for the timelock, accepts it, applies it and reads    *)
(* the record back.  Every step is a transaction or an RPC read of its     *)
(* own; other grants for the same record run in between, a read may come   *)
(* from a node that is behind, and a grant may end anywhere (an error, a   *)
(* timeout, the process killed) while its last transaction still lands.    *)
(***************************************************************************)
EXTENDS Integers, Sequences

CONSTANTS
    Grants,         \* calls of grantPermission for one subject and scope
    Grant,          \* [Grants -> [roles, expiries]]: what is asked for; an expiry
                    \* may be Unspecified
    Unspecified,    \* grant.expiryUnixTimestamp is undefined
    Dangerous,      \* DANGEROUS_PERMISSION_ROLE_MASK
    GlobalScope,    \* the record's scope kind is GLOBAL
    InitialRecords, \* what the record may hold at the start
    Delay,          \* delaySeconds of scheduleConfigChangeInstruction
    Lifetime,       \* lifetimeSeconds of scheduleConfigChangeInstruction
    MaxLag,         \* how far a node may be behind, in versions and in seconds
    MaxClock        \* bound on the on-chain clock

(* The account does not exist; a grant treats it as this value. *)
NoRecord == [roles |-> {}, generation |-> 0, expiry |-> 0]

Roles == UNION ({Grant[g].roles : g \in Grants} \cup {r.roles : r \in InitialRecords})
Records == [roles : SUBSET Roles, generation : Nat, expiry : Nat]

(* What the program lets a record hold: dangerous roles have a scope and an end. *)
Permitted(r) == r.roles \cap Dangerous # {} => ~GlobalScope /\ r.expiry # 0

ASSUME GrantAssumption ==
    \A g \in Grants : Grant[g].roles # {} /\ Grant[g].expiries \subseteq Nat \cup {Unspecified}
ASSUME RecordAssumption == InitialRecords \subseteq {r \in Records : Permitted(r)}
ASSUME ClockAssumption ==
    /\ Delay \in Nat \ {0} /\ Lifetime \in Nat \ {0}
    /\ MaxLag \in Nat /\ MaxClock \in Nat /\ GlobalScope \in BOOLEAN

VARIABLES
    versions,   \* external: the values the record has had, oldest first
    clock,      \* external: the on-chain time
    pending,    \* external: pending[g], the PendingConfigChange of grant g
    tx,         \* external: tx[g], what became of g's latest transaction
    grant       \* grant[g]: the local variables of the call

vars == <<versions, clock, pending, tx, grant>>

Record == versions[Len(versions)]
NoPending == [status |-> "none", from |-> NoRecord, to |-> NoRecord,
              executableAfter |-> 0, expiresAt |-> 0]

Init ==
    /\ versions \in {<<r>> : r \in InitialRecords}
    /\ clock = 0
    /\ pending = [g \in Grants |-> NoPending]
    /\ tx = [g \in Grants |-> "none"]
    /\ grant = [g \in Grants |-> 
         [pc |-> "record", expiry |-> Unspecified, old |-> NoRecord, new |-> NoRecord]]

At(g, pc) == grant[g].pc = pc
Goto(g, pc) == grant' = [grant EXCEPT ![g].pc = pc]

(* What a node that may be behind answers. *)
RecordViews == {versions[v] : v \in {i \in 1..Len(versions) : i + MaxLag >= Len(versions)}}
ClockViews  == {t \in 0..clock : t + MaxLag >= clock}

----------------------------------------------------------------------------
(* The grant's reads and decisions. *)

(* The call is made, with or without an expiry, and reads the record. *)
ReadRecord(g) ==
    /\ At(g, "record")
    /\ \E r \in RecordViews, e \in Grant[g].expiries :
         grant' = [grant EXCEPT ![g] = [@ EXCEPT !.pc = "clock", !.old = r, !.expiry = e]]
    /\ UNCHANGED <<versions, clock, pending, tx>>

Exists(r) == r.generation > 0

NewExpiry(g) ==
    IF Exists(grant[g].old) THEN grant[g].old.expiry
    ELSE IF grant[g].expiry = Unspecified THEN 0 ELSE grant[g].expiry

(* A plausible bug: the granted roles replace the old ones. *)
NewValueReplacing(g) == [roles      |-> Grant[g].roles,
                         generation |-> grant[g].old.generation + 1,
                         expiry     |-> NewExpiry(g)]

(* newValue: the roles are added, the generation is the next one. *)
NewValue(g) == [roles      |-> grant[g].old.roles \cup Grant[g].roles,
                generation |-> grant[g].old.generation + 1,
                expiry     |-> NewExpiry(g)]

(* The checks on the expiry: preserved by a role grant, and in the future. *)
ExpiryAdmissible(g, now) ==
    /\ Exists(grant[g].old) => grant[g].expiry \in {Unspecified, grant[g].old.expiry}
    /\ NewExpiry(g) = 0 \/ NewExpiry(g) > now

(* A plausible bug: the expiry looked at is the grant's, not the record's. *)
DangerAdmissibleByGrant(g) ==
    NewValue(g).roles \cap Dangerous # {} =>
        ~GlobalScope /\ (NewExpiry(g) # 0 \/ grant[g].expiry = Unspecified)

(* Dangerous roles need a scope and an end. *)
DangerAdmissible(g) == Permitted(NewValue(g))

(* A plausible bug: one of the roles is enough. *)
AlreadyGrantedInPart(g) ==
    Exists(grant[g].old) /\ Grant[g].roles \cap grant[g].old.roles # {}

(* newRoles = oldRoles *)
AlreadyGranted(g) == Exists(grant[g].old) /\ Grant[g].roles \subseteq grant[g].old.roles

(* The clock is read; the grant has nothing to add or goes on.  A check that
   throws is in GiveUp. *)
ReadClock(g) ==
    /\ At(g, "clock")
    /\ \E now \in ClockViews : ExpiryAdmissible(g, now)
    /\ IF AlreadyGranted(g) THEN Goto(g, "returned")
       ELSE /\ DangerAdmissible(g)
            /\ grant' = [grant EXCEPT ![g] = [@ EXCEPT !.pc = "propose", !.new = NewValue(g)]]
    /\ UNCHANGED <<versions, clock, pending, tx>>

(* submitInstructions hands the transaction of the current stage to the cluster
   and polls for it. *)
TransactionStages == {"propose", "accept", "apply"}

Send(g) ==
    /\ grant[g].pc \in TransactionStages
    /\ tx[g] = "none"
    /\ tx' = [tx EXCEPT ![g] = grant[g].pc]
    /\ UNCHANGED <<versions, clock, pending, grant>>

NextStage(stage) ==
    CASE stage = "propose" -> "pending"
      [] stage = "accept"  -> "apply"
      [] stage = "apply"   -> "readback"

Confirmed(g) ==
    /\ grant[g].pc \in TransactionStages
    /\ tx[g] = "executed"
    /\ Goto(g, NextStage(grant[g].pc))
    /\ tx' = [tx EXCEPT ![g] = "none"]
    /\ UNCHANGED <<versions, clock, pending>>

(* The proposal is read back: status must be proposed. *)
ReadPending(g) ==
    /\ At(g, "pending")
    /\ pending[g].status = "proposed"
    /\ Goto(g, "timelock")
    /\ UNCHANGED <<versions, clock, pending, tx>>

(* The timelock loop ends when a Clock read has reached executableAfter ... *)
TimelockReached(g) ==
    /\ At(g, "timelock")
    /\ \E now \in ClockViews : now >= pending[g].executableAfter
    /\ Goto(g, "lifetime")
    /\ UNCHANGED <<versions, clock, pending, tx>>

(* ... and one more Clock read must be before the proposal's end. *)
LifetimeChecked(g) ==
    /\ At(g, "lifetime")
    /\ \E now \in ClockViews : now < pending[g].expiresAt
    /\ Goto(g, "accept")
    /\ UNCHANGED <<versions, clock, pending, tx>>

(* The record read back must hold exactly the new value. *)
ReadBack(g) ==
    /\ At(g, "readback")
    /\ grant[g].new \in RecordViews
    /\ Goto(g, "returned")
    /\ UNCHANGED <<versions, clock, pending, tx>>

(* The call ends early: a failed check above, an RPC error, a rejected or timed
   out transaction, the 30 s deadline of the timelock, or the process is gone.
   A transaction that was sent stays with the cluster. *)
GiveUp(g) ==
    /\ grant[g].pc \notin {"returned", "failed"}
    /\ Goto(g, "failed")
    /\ UNCHANGED <<versions, clock, pending, tx>>

----------------------------------------------------------------------------
(* External: the program. *)

Tick ==
    /\ clock < MaxClock
    /\ clock' = clock + 1
    /\ UNCHANGED <<versions, pending, tx, grant>>

ExecuteProposal(g) ==
    /\ tx[g] = "propose"
    /\ pending' = [pending EXCEPT ![g] =
         [status |-> "proposed", from |-> grant[g].old, to |-> grant[g].new,
          executableAfter |-> clock + Delay, expiresAt |-> clock + Delay + Lifetime]]
    /\ tx' = [tx EXCEPT ![g] = "executed"]
    /\ UNCHANGED <<versions, clock, grant>>

ExecuteAcceptance(g) ==
    /\ tx[g] = "accept"
    /\ pending[g].status = "proposed"
    /\ clock >= pending[g].executableAfter /\ clock < pending[g].expiresAt
    /\ pending' = [pending EXCEPT ![g].status = "accepted"]
    /\ tx' = [tx EXCEPT ![g] = "executed"]
    /\ UNCHANGED <<versions, clock, grant>>

(* The old-value hash of the change must be the hash of the record as it is; it
   covers roles, generation and expiry. *)
ExecuteChange(g) ==
    /\ tx[g] = "apply"
    /\ pending[g].status = "accepted"
    /\ pending[g].from = Record
    /\ versions' = Append(versions, pending[g].to)
    /\ pending' = [pending EXCEPT ![g].status = "closed"]
    /\ tx' = [tx EXCEPT ![g] = "executed"]
    /\ UNCHANGED <<clock, grant>>

(* The blockhash runs out, or the program rejects. *)
DropTransaction(g) ==
    /\ tx[g] \in TransactionStages
    /\ tx' = [tx EXCEPT ![g] = "dropped"]
    /\ UNCHANGED <<versions, clock, pending, grant>>

Program(g) ==
    ExecuteProposal(g) \/ ExecuteAcceptance(g) \/ ExecuteChange(g) \/ DropTransaction(g)

GrantPermission(g) ==
    \/ ReadRecord(g) \/ ReadClock(g) \/ Send(g) \/ Confirmed(g) \/ ReadPending(g)
    \/ TimelockReached(g) \/ LifetimeChecked(g) \/ ReadBack(g) \/ GiveUp(g)

Next == Tick \/ \E g \in Grants : GrantPermission(g) \/ Program(g)

Spec == Init /\ [][Next]_vars

----------------------------------------------------------------------------
(* Properties. *)

Stages == {"record", "clock", "pending", "timelock", "lifetime", "readback",
           "returned", "failed"} \cup TransactionStages

(* Every variable keeps its type. *)
TypeOK ==
    /\ versions \in Seq(Records) /\ versions # <<>>
    /\ clock \in 0..MaxClock
    /\ pending \in [Grants -> [status : {"none", "proposed", "accepted", "closed"},
                               from : Records, to : Records,
                               executableAfter : Nat, expiresAt : Nat]]
    /\ tx \in [Grants -> TransactionStages \cup {"none", "executed", "dropped"}]
    /\ grant \in [Grants -> [pc : Stages, expiry : Nat \cup {Unspecified},
                             old : Records, new : Records]]

(* A grant that returned is in force, whatever grants ran at the same time and
   whichever nodes answered. *)
ReturnedGrantHolds ==
    \A g \in Grants : At(g, "returned") => Grant[g].roles \subseteq Record.roles

(* No concurrent grant is overwritten: the record only ever moves to the next
   generation with all its roles, and an existing expiry is never changed. *)
NoLostGrant ==
    [][versions' # versions =>
          LET next == versions'[Len(versions')] IN
          /\ next.generation = Record.generation + 1
          /\ Record.roles \subseteq next.roles
          /\ Exists(Record) => next.expiry = Record.expiry]_vars

(* Dangerous roles are never held without an expiry, nor globally, even when one
   grant adds them while another creates the record. *)
DangerousRolesExpire == Permitted(Record)
=============================================================================
