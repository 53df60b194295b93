---------------------------- MODULE Inspection ----------------------------
(***************************************************************************)
(* ChanceryClient.inspect against a cluster of RPC nodes.                  *)
(*                                                                         *)
(* An inspection is a chain of awaited JSON-RPC calls: getSlot, the Clock  *)
(* sysvar, then every account the settlement depends on.  Each answer may  *)
(* come from a different node, and a node may lag behind the tip.  The     *)
(* client defends itself with one number kept in its ChanceryRpc object,   *)
(* the minimum context slot ("floor"), which is attached to account reads  *)
(* when the request is built.  All inspections made through one client     *)
(* share that number.                                                      *)
(*                                                                         *)
(* A step is what the event loop runs between two awaits: take an answer,  *)
(* update the client, build the next request.  The accounts told apart     *)
(* here are the usage windows, whose meaning depends on the Clock read     *)
(* before them; the other account reads are the "core" read.               *)
(***************************************************************************)
EXTENDS UsageLimits, Sequences, FiniteSetsExt

CONSTANTS
    Operations,     \* calls of inspect on one client
    Request,        \* [Operations -> [action, amount, now]], see IsRequest
    NoOverride,     \* the request gives no nowUnixTimestamp
    WindowOrder,    \* the order in which #loadLimitWindows visits WindowKinds
    Settlements,    \* settlements other parties make: records [action, amount]
    Ticks,          \* by how much the on-chain clock may advance in one slot
    StartTime,      \* the on-chain clock in the first slot
    MaxLag,         \* how many slots an RPC node may be behind
    MaxSlot         \* bound on the length of the chain

IsRequest(r) ==
    /\ r.action \in SettlementActions
    /\ r.amount \in Nat \ {0}
    /\ r.now \in Int \cup {NoOverride}

ASSUME RequestAssumption ==
    /\ DOMAIN Request = Operations
    /\ \A o \in Operations : IsRequest(Request[o])
ASSUME BoundAssumption ==
    /\ MaxSlot \in Nat \ {0} /\ MaxLag \in Nat
    /\ Ticks \subseteq Nat /\ StartTime \in Int
ASSUME OrderAssumption ==
    /\ WindowOrder \in Seq(WindowKinds)
    /\ \A w \in WindowKinds : \E i \in 1..Len(WindowOrder) : WindowOrder[i] = w
    /\ {"core", "tokens"} \cap WindowKinds = {}
ASSUME SettlementAssumption ==
    Settlements \subseteq [action : SettlementActions, amount : Nat \ {0}]

VARIABLES
    chain,      \* external: one record [time, event, usage] per slot
    floor,      \* ChanceryRpc.#minimumContextSlot; 0 stands for null
    inspection  \* [Operations -> the local variables of one inspect call]

vars == <<chain, floor, inspection>>

NoEvent == [action |-> "none", amount |-> 0]

Slot == Len(chain)
Tip  == chain[Slot]

(* "core" stands for every account read before the usage windows (state, mints,
   intent, pathway, policies, permissions), "tokens" for the reads after them
   (token accounts, reserve destinations). *)
ReadPlan == <<"core">> \o WindowOrder \o <<"tokens">>

(* The loop over the windows skips those that are not enforced. *)
Skipped(account) == account \in WindowKinds /\ ~Enforced(account)
NextRead(i) == Min({j \in (i + 1)..Len(ReadPlan) : ~Skipped(ReadPlan[j])})

Idle == [pc |-> "idle", minContextSlot |-> 0, contextSlot |-> 0, now |-> 0,
         next |-> 1, readAt |-> {}, windows |-> [w \in WindowKinds |-> NoAccount],
         ready |-> FALSE]

Init ==
    /\ chain \in {<<[time |-> StartTime, event |-> NoEvent, usage |-> u]>> :
                    u \in {[w \in WindowKinds |-> NoAccount],
                           [w \in WindowKinds |->
                              UsageWindow(CanonicalWindowStart(w, StartTime), 0, 0, 0)]}}
    /\ floor = 0
    /\ inspection = [o \in Operations |-> Idle]

----------------------------------------------------------------------------
(* External: the chain.  A slot may carry a settlement of another party, which
   the program charges to every enforced window, or create the windows. *)

WindowsExist == \A w \in WindowKinds : Tip.usage[w].exists

EmptySlot(time) == [time |-> time, event |-> NoEvent, usage |-> Tip.usage]

SettledSlot(time, e) ==
    [time |-> time, event |-> e,
     usage |-> [w \in WindowKinds |-> Charge(w, Tip.usage[w], e.action, e.amount, time)]]

CreationSlot(time) ==
    [time |-> time, event |-> NoEvent,
     usage |-> [w \in WindowKinds |->
                  UsageWindow(CanonicalWindowStart(w, time), 0, 0, 0)]]

ProduceSlot ==
    /\ Slot < MaxSlot
    /\ \E tick \in Ticks :
         LET time == Tip.time + tick IN
         \/ chain' = Append(chain, EmptySlot(time))
         \/ /\ WindowsExist
            /\ \E e \in Settlements : chain' = Append(chain, SettledSlot(time, e))
         \/ /\ ~WindowsExist
            /\ chain' = Append(chain, CreationSlot(time))
    /\ UNCHANGED <<floor, inspection>>

(* The slots an answering node may have reached. *)
NodeViews == {s \in 1..Slot : s + MaxLag >= Slot}

----------------------------------------------------------------------------
(* A plausible bug: the next slot is asked for, which may not exist yet. *)
SetMinimumContextSlotNext(slot) == floor' = slot + 1

(* setMinimumContextSlot: a plain assignment, not a maximum. *)
SetMinimumContextSlot(slot) == floor' = slot

(* inspect is called: getSlot carries no minimum context slot. *)
StartInspect(o) ==
    /\ inspection[o].pc = "idle"
    /\ inspection' = [inspection EXCEPT ![o].pc = "slot"]
    /\ UNCHANGED <<chain, floor>>

(* The getSlot answer: raise the floor and, in the same turn of the event
   loop, build the Clock read with it. *)
SlotReply(o) ==
    /\ inspection[o].pc = "slot"
    /\ \E s \in NodeViews :
         /\ SetMinimumContextSlot(s)
         /\ inspection' = [inspection EXCEPT ![o] =
                             [@ EXCEPT !.pc = "clock", !.minContextSlot = s]]
    /\ UNCHANGED chain

ObservedTime(o, s) ==
    IF Request[o].now = NoOverride THEN chain[s].time ELSE Request[o].now

(* A plausible bug: the floor stays at the getSlot answer, so an account may be
   read from a node behind the Clock the inspection records. *)
ClockReplyWithoutFloor(o) ==
    /\ inspection[o].pc = "clock"
    /\ \E s \in NodeViews :
         /\ s >= inspection[o].minContextSlot
         /\ inspection' = [inspection EXCEPT ![o] =
                             [@ EXCEPT !.pc = "read", !.minContextSlot = floor,
                                       !.contextSlot = s, !.now = ObservedTime(o, s)]]
    /\ UNCHANGED <<chain, floor>>

(* The Clock sysvar answer fixes the observation context, moves the floor to
   the Clock's slot and builds the first account read. *)
ClockReply(o) ==
    /\ inspection[o].pc = "clock"
    /\ \E s \in NodeViews :
         /\ s >= inspection[o].minContextSlot
         /\ SetMinimumContextSlot(s)
         /\ inspection' = [inspection EXCEPT ![o] =
                             [@ EXCEPT !.pc = "read", !.minContextSlot = s,
                                       !.contextSlot = s, !.now = ObservedTime(o, s)]]
    /\ UNCHANGED chain

(* The windows the call holds once the read in progress is answered from slot s. *)
WindowsAfter(o, s) ==
    LET account == ReadPlan[inspection[o].next]
    IN  [w \in WindowKinds |-> IF w = account THEN chain[s].usage[w]
                               ELSE inspection[o].windows[w]]

Verdict(o, s) ==
    LimitsAccept(WindowsAfter(o, s), Request[o].action, Request[o].amount,
                 inspection[o].now)

(* The call once the read in progress is answered from slot s.  The next read is
   built with the floor the client holds NOW; after the last one the blocking
   issues decide ready. *)
Answered(o, s) ==
    LET last == inspection[o].next = Len(ReadPlan) IN
    [inspection[o] EXCEPT
        !.pc = IF last THEN "done" ELSE "read",
        !.minContextSlot = floor,
        !.next = IF last THEN @ + 1 ELSE NextRead(@),
        !.readAt = @ \cup {s},
        !.windows = WindowsAfter(o, s),
        !.ready = last /\ Verdict(o, s)]

(* An account answer. *)
ReadReply(o) ==
    /\ inspection[o].pc = "read"
    /\ \E s \in NodeViews :
         /\ s >= inspection[o].minContextSlot
         /\ inspection' = [inspection EXCEPT ![o] = Answered(o, s)]
    /\ UNCHANGED <<chain, floor>>

(* Any awaited call may reject: transport error, or a node that has not reached
   the minimum context slot of the request.  inspect then throws. *)
RequestFails(o) ==
    /\ inspection[o].pc \in {"slot", "clock", "read"}
    /\ inspection' = [inspection EXCEPT ![o].pc = "failed"]
    /\ UNCHANGED <<chain, floor>>

Reply(o) == SlotReply(o) \/ ClockReply(o) \/ ReadReply(o) \/ RequestFails(o)

(* Calls that overlap: nothing in the client prevents it. *)
Next ==
    \/ ProduceSlot
    \/ \E o \in Operations : StartInspect(o) \/ Reply(o)

Spec == Init /\ [][Next]_vars

(* Calls one after the other: an inspection starts when no other is running. *)
Running(o) == inspection[o].pc \in {"slot", "clock", "read"}

SequentialNext ==
    \/ ProduceSlot
    \/ \E o \in Operations :
         \/ (\A other \in Operations : ~Running(other)) /\ StartInspect(o)
         \/ Reply(o)

SequentialSpec == Init /\ [][SequentialNext]_vars

----------------------------------------------------------------------------
(* Properties. *)

Verdicts == {"idle", "slot", "clock", "read", "done", "failed"}

SlotRecords == [time : Int, event : {NoEvent} \cup Settlements,
                usage : [WindowKinds -> WindowAccounts]]

(* Every variable keeps its type; slots a call remembers exist on the chain. *)
TypeOK ==
    /\ chain \in Seq(SlotRecords) /\ Slot \in 1..MaxSlot
    /\ floor \in 0..Slot
    /\ inspection \in [Operations ->
         [pc : Verdicts, minContextSlot : 0..Slot, contextSlot : 0..Slot, now : Int,
          next : 1..(Len(ReadPlan) + 1), readAt : SUBSET (1..Slot),
          windows : [WindowKinds -> WindowAccounts], ready : BOOLEAN]]

(* CORRECTNESS-CONTRACT.md: minContextSlot prevents reads older than the
   recorded observation floor.  No account of an inspection was read from a
   slot before the inspection's own contextSlot. *)
ReadsAtOrAboveFloor ==
    \A o \in Operations :
        \A s \in inspection[o].readAt : s >= inspection[o].contextSlot

(* The settlements recorded on the chain up to slot s that fall into the period
   of window w that begins at start. *)
InPeriod(w, start, r) ==
    chain[r].event # NoEvent /\ CanonicalWindowStart(w, chain[r].time) = start
SamePeriod(w, start, s) == {r \in 1..s : InPeriod(w, start, r)}

(* f[1] + ... + f[n] *)
Total(f, n) == LET sum[i \in 0..n] == IF i = 0 THEN 0 ELSE sum[i - 1] + f[i] IN sum[n]

Amounts(w, start, s, action) ==
    [r \in 1..s |-> IF InPeriod(w, start, r) /\ chain[r].event.action = action
                    THEN chain[r].event.amount ELSE 0]

UsedAmount(w, start, s, action) == Total(Amounts(w, start, s, action), s)

UsedActions(w, start, s) == Cardinality(SamePeriod(w, start, s))

WithinCap(o, w, s) ==
    LET start == CanonicalWindowStart(w, inspection[o].now) IN
    /\ Policy.maximum[w] # 0 =>
         UsedAmount(w, start, s, Request[o].action) + Request[o].amount <= Policy.maximum[w]
    /\ Policy.maximum_actions[w] # 0 =>
         UsedActions(w, start, s) + 1 <= Policy.maximum_actions[w]

(* A ready inspection never hides a limit breach: measured against the chain's
   own settlement history up to the observation slot, the operation fits every
   cap of the period its timestamp falls in, although Clock and windows were
   read from different nodes at different slots. *)
ReadyWithinCap ==
    \A o \in Operations :
        inspection[o].ready =>
            \A w \in WindowKinds : WithinCap(o, w, inspection[o].contextSlot)

(* A refusal has a cause on the chain: an account missing at the observation
   slot, an exceeded cap by the newest slot read, or a settlement already
   recorded in a later period than the observed timestamp (the fail-closed
   answer to a clock regression). *)
RefusalJustified ==
    \A o \in Operations :
        LET i == inspection[o] IN
        (i.pc = "done" /\ ~i.ready) =>
            \/ ~PerTransactionAllowed(Request[o].amount)
            \/ \E w \in WindowKinds :
                 /\ Enforced(w)
                 /\ LET newest == Max(i.readAt) IN
                    \/ ~chain[i.contextSlot].usage[w].exists
                    \/ ~WithinCap(o, w, newest)
                    \/ \E r \in 1..newest :
                          CanonicalWindowStart(w, chain[r].time)
                              > CanonicalWindowStart(w, i.now)
=============================================================================
