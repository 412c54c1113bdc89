----------------------------- MODULE Quota_proofs -----------------------------
(***************************************************************************)
(* A landlord is not on a paid plan for longer than he paid for: for any   *)
(* number of sessions and payments, lengths of intervals and allowances.   *)
(***************************************************************************)
EXTENDS Quota, TLAPS

----------------------------------------------------------------------------
(* Types.                                                                  *)

\* What is spent or settled was there when it was chosen.
ChosenGrantsExist ==
    \A s \in Sessions : InCall(s, "spendGrant") => grant[call[s].grant] # NULL

QuotaInv == QuotaTypeOK /\ ChosenGrantsExist

\* ensureCurrentPeriod writes a well-typed row.
LEMMA ResetRowType ==
    ASSUME NEW row \in QuotaRow, NEW t \in Nat
    PROVE  ResetRow(row, t) \in QuotaRow
<1>1. row.plan \in Plan /\ row.ends \in Nat /\ row.pending \in Pending \cup {NULL}
  BY DEF QuotaRow
<1>2. PendingDue(row, t) => row.pending \in Pending
  BY <1>1 DEF PendingDue
<1>3. EffectivePlan(row, t) \in Plan
  BY <1>1, <1>2 DEF EffectivePlan, Pending, Plan
<1>4. EffectiveEnds(row, t) \in Nat
  BY <1>1, <1>2 DEF EffectiveEnds, Pending
<1>5. PeriodEnd(row, t) \in Nat
  BY <1>4, QuotaAssumption DEF PeriodEnd
<1>6. Allowance[EffectivePlan(row, t)] \in Nat
  BY <1>3, QuotaAssumption
<1>7. (IF PendingDue(row, t) THEN NULL ELSE row.pending) \in Pending \cup {NULL}
  BY <1>1
<1> QED
  BY <1>3, <1>4, <1>5, <1>6, <1>7 DEF ResetRow, QuotaRow

\* What a call in flight carries, by its operation.
LEMMA CallFields ==
    ASSUME QuotaTypeOK, NEW s \in Sessions
    PROVE  /\ InCall(s, "reset") => call[s].row \in QuotaRow
           /\ InCall(s, "spendGrant") => call[s].grant \in Payments
<1>1. CASE call[s] = NULL
  BY <1>1 DEF InCall
<1>2. CASE call[s] # NULL
  <2>1. call[s] \in Call
    BY <1>2 DEF QuotaTypeOK
  <2> QED
    BY <2>1 DEF Call, InCall
<1> QED
  BY <1>1, <1>2

\* A step that puts a well-typed call in place of a session's keeps the rest.
LEMMA CallStep ==
    ASSUME QuotaInv, NEW s \in Sessions, NEW c \in Call \cup {NULL},
           Continue(s, c),
           UNCHANGED <<now, settled, settling, bought, used>>,
           quota' \in QuotaRow,
           grant' \in [Payments -> Grant \cup {NULL}],
           \A p \in Payments : grant[p] # NULL => grant'[p] # NULL,
           c # NULL /\ c.op = "spendGrant" => grant[c.grant] # NULL
    PROVE  QuotaInv'
<1>1. call' \in [Sessions -> Call \cup {NULL}]
  BY DEF Continue, QuotaInv, QuotaTypeOK
<1>2. QuotaTypeOK'
  BY <1>1 DEF QuotaInv, QuotaTypeOK
<1>3. ASSUME NEW u \in Sessions, InCall(u, "spendGrant")'
      PROVE  grant'[call'[u].grant] # NULL
  <2>1. CASE u = s
    <3>1. call'[u] = c
      BY <2>1 DEF Continue, QuotaInv, QuotaTypeOK
    <3>2. c \in Call /\ c.op = "spendGrant"
      BY <1>3, <3>1 DEF InCall
    <3>3. c.grant \in Payments
      BY <3>2 DEF Call
    <3> QED
      BY <3>1, <3>2, <3>3, QuotaNullAssumption
  <2>2. CASE u # s
    <3>1. call'[u] = call[u]
      BY <2>2 DEF Continue, QuotaInv, QuotaTypeOK
    <3>2. InCall(u, "spendGrant")
      BY <1>3, <3>1 DEF InCall
    <3>3. call[u].grant \in Payments /\ grant[call[u].grant] # NULL
      BY <3>2, CallFields DEF QuotaInv, ChosenGrantsExist
    <3> QED
      BY <3>1, <3>3
  <2> QED
    BY <2>1, <2>2
<1> QED
  BY <1>2, <1>3 DEF QuotaInv, ChosenGrantsExist

LEMMA SessionTypes ==
    ASSUME QuotaInv, NEW s \in Sessions,
           \/ ReadExpired(s) \/ ReadCurrent(s) \/ ResetPeriod(s)
           \/ ChoosePlan(s) \/ SpendGrant(s) \/ SpendPlan(s) \/ Abandon(s)
           \/ \E p \in Payments : ChooseGrant(s, p)
    PROVE  QuotaInv'
<1> USE DEF Idle, Finish
<1>0. /\ quota \in QuotaRow /\ now \in Nat
      /\ grant \in [Payments -> Grant \cup {NULL}]
  BY DEF QuotaInv, QuotaTypeOK
<1>1. CASE ReadExpired(s)
  <2> DEFINE c == [op |-> "reset", row |-> ResetRow(quota, now)]
  <2>1. c \in Call /\ c.op = "reset"
    BY <1>0, ResetRowType DEF Call
  <2>2. Continue(s, c) /\ UNCHANGED <<now, quota, grant, settled, settling, bought, used>>
    BY <1>1 DEF ReadExpired
  <2> HIDE DEF c
  <2> QED
    BY <1>0, <2>1, <2>2, CallStep
<1>2. CASE ReadCurrent(s)
  <2> DEFINE c == [op |-> "offer"]
  <2>1. c \in Call /\ c.op = "offer"
    BY DEF Call
  <2>2. Continue(s, c) /\ UNCHANGED <<now, quota, grant, settled, settling, bought, used>>
    BY <1>2 DEF ReadCurrent
  <2> HIDE DEF c
  <2> QED
    BY <1>0, <2>1, <2>2, CallStep
<1>3. CASE ResetPeriod(s)
  <2> DEFINE c == [op |-> "offer"]
  <2>1. c \in Call /\ c.op = "offer"
    BY DEF Call
  <2>2. Continue(s, c) \/ Continue(s, NULL)
    BY <1>3 DEF ResetPeriod
  <2>3. quota' \in QuotaRow /\ UNCHANGED <<now, grant, settled, settling, bought, used>>
    BY <1>3, CallFields DEF ResetPeriod, QuotaInv
  <2> HIDE DEF c
  <2> QED
    BY <1>0, <2>1, <2>2, <2>3, CallStep
<1>4. CASE ChoosePlan(s)
  <2> DEFINE c == [op |-> "spendPlan"]
  <2>1. c \in Call /\ c.op = "spendPlan"
    BY DEF Call
  <2>2. Continue(s, c) /\ UNCHANGED <<now, quota, grant, settled, settling, bought, used>>
    BY <1>4 DEF ChoosePlan
  <2> HIDE DEF c
  <2> QED
    BY <1>0, <2>1, <2>2, CallStep
<1>5. CASE SpendGrant(s)
  <2> DEFINE g == call[s].grant
  <2>1. g \in Payments /\ grant[g] # NULL
    BY <1>5, CallFields DEF SpendGrant, QuotaInv, ChosenGrantsExist
  <2>2. grant[g] \in Grant
    BY <1>0, <2>1
  <2>3. /\ Continue(s, NULL)
        /\ UNCHANGED <<now, quota, settled, settling, bought, used>>
    BY <1>5 DEF SpendGrant
  <2>4. CASE grant[g].left > 0
    <3> DEFINE spent == [grant[g] EXCEPT !.left = @ - 1]
    <3>1. spent \in Grant
      BY <2>2, <2>4 DEF Grant
    <3>2. grant' = [grant EXCEPT ![g] = spent]
      BY <1>5, <2>4 DEF SpendGrant
    <3>3. spent # NULL
      BY <3>1, QuotaNullAssumption
    <3> HIDE DEF spent, g
    <3>4. /\ grant' \in [Payments -> Grant \cup {NULL}]
          /\ \A p \in Payments : grant[p] # NULL => grant'[p] # NULL
      BY <1>0, <2>1, <3>1, <3>2, <3>3
    <3> QED
      BY <1>0, <2>3, <3>4, CallStep
  <2>5. CASE ~(grant[g].left > 0)
    <3>1. grant' = grant
      BY <1>5, <2>5 DEF SpendGrant
    <3> QED
      BY <1>0, <2>3, <3>1, CallStep
  <2> QED
    BY <2>4, <2>5
<1>6. CASE SpendPlan(s)
  <2>1. quota' \in QuotaRow
    BY <1>0, <1>6 DEF SpendPlan, QuotaRow
  <2>2. Continue(s, NULL) /\ UNCHANGED <<now, grant, settled, settling, bought, used>>
    BY <1>6 DEF SpendPlan
  <2> QED
    BY <1>0, <2>1, <2>2, CallStep
<1>7. CASE Abandon(s)
  BY <1>0, <1>7, CallStep DEF Abandon
<1>8. ASSUME NEW p \in Payments, ChooseGrant(s, p)
      PROVE  QuotaInv'
  <2> DEFINE c == [op |-> "spendGrant", grant |-> p]
  <2>1. c \in Call /\ c.grant = p
    BY DEF Call
  <2>2. Continue(s, c) /\ UNCHANGED <<now, quota, grant, settled, settling, bought, used>>
    BY <1>8 DEF ChooseGrant
  <2>3. grant[p] # NULL
    BY <1>8 DEF ChooseGrant, SoonestGrant, Usable
  <2> HIDE DEF c
  <2> QED
    BY <1>0, <2>1, <2>2, <2>3, CallStep
<1> QED
  BY <1>1, <1>2, <1>3, <1>4, <1>5, <1>6, <1>7, <1>8

----------------------------------------------------------------------------
(* Types of settlements and of time.                                       *)

\* The plan and the time a settlement has read are typed.
LEMMA ReadFields ==
    ASSUME QuotaTypeOK, NEW p \in Payments, settling[p] # NULL
    PROVE  /\ settling[p].plan \in Plan
           /\ settling[p].ends \in Nat
           /\ settling[p].at \in Nat
BY DEF QuotaTypeOK, Read

\* A product bought is one of a plan, for a positive time.
LEMMA SubscriptionFields ==
    ASSUME NEW p \in Payments, ProductOf[p].kind = "SUBSCRIPTION"
    PROVE  /\ ProductOf[p].plan \in Plan
           /\ Length(ProductOf[p]) \in Nat
<1>1. ProductOf[p] \in Subscription \cup OfferPack
  BY QuotaAssumption
<1>2. ProductOf[p] \in Subscription
  BY <1>1 DEF OfferPack
<1> QED
  BY <1>2, QuotaAssumption DEF Subscription, Length

\* The three ways to change the row leave it well typed.
LEMMA SettledRow ==
    ASSUME QuotaInv, NEW p \in Payments, SettleSubscription(p)
    PROVE  quota' \in QuotaRow
<1> DEFINE product == ProductOf[p]
           read == settling[p]
<1>1. /\ read # NULL /\ product.kind = "SUBSCRIPTION"
      /\ Downgrade(product, read) \/ Renew(product, read) \/ StartPlan(product, read)
  BY DEF SettleSubscription
<1>2. read.ends \in Nat /\ read.at \in Nat
  BY <1>1, ReadFields DEF QuotaInv
<1>3. product.plan \in Plan /\ Length(product) \in Nat
  BY <1>1, SubscriptionFields
<1>4. quota \in QuotaRow
  BY DEF QuotaInv, QuotaTypeOK
<1> HIDE DEF product, read
<1>5. CASE Downgrade(product, read)
  <2> DEFINE next == [plan |-> product.plan, starts |-> read.ends,
                      ends |-> read.ends + Length(product)]
  <2>1. next \in Pending
    BY <1>2, <1>3 DEF Pending
  <2>2. quota' = [quota EXCEPT !.pending = next]
    BY <1>5 DEF Downgrade
  <2> HIDE DEF next
  <2> QED
    BY <1>4, <2>1, <2>2 DEF QuotaRow
<1>6. CASE Renew(product, read)
  <2> DEFINE end == read.ends + Length(product)
  <2>1. end \in Nat
    BY <1>2, <1>3
  <2>2. quota' = [quota EXCEPT !.ends = end]
    BY <1>6 DEF Renew
  <2> HIDE DEF end
  <2> QED
    BY <1>4, <2>1, <2>2 DEF QuotaRow
<1>7. CASE StartPlan(product, read)
  <2>1. /\ read.at + Length(product) \in Nat
        /\ read.at + Month \in Nat
        /\ Allowance[product.plan] \in Nat
    BY <1>2, <1>3, QuotaAssumption
  <2> QED
    BY <1>3, <1>7, <2>1 DEF StartPlan, QuotaRow
<1> QED
  BY <1>1, <1>5, <1>6, <1>7

\* Steps that leave the calls and the grants in place.
LEMMA ChosenFrame ==
    ASSUME QuotaInv, QuotaTypeOK', call' = call,
           \A p \in Payments : grant[p] # NULL => grant'[p] # NULL
    PROVE  QuotaInv'
<1> SUFFICES ASSUME NEW s \in Sessions, InCall(s, "spendGrant")'
             PROVE  grant'[call'[s].grant] # NULL
  BY DEF QuotaInv, ChosenGrantsExist
<1>1. InCall(s, "spendGrant")
  BY DEF InCall
<1> QED
  BY <1>1, CallFields DEF QuotaInv, ChosenGrantsExist

LEMMA SettlementTypes ==
    ASSUME QuotaInv, NEW p \in Payments,
           \/ BeginSettlement(p) \/ SettlementFails(p)
           \/ SettleSubscription(p) \/ SettlePack(p)
    PROVE  QuotaInv'
<1> USE DEF QuotaTypeOK
<1>1. CASE BeginSettlement(p)
  <2> DEFINE read == [plan |-> quota.plan, ends |-> quota.ends, at |-> now]
  <2>1. read \in Read
    BY DEF Read, QuotaInv, QuotaRow
  <2>2. /\ settling' = [settling EXCEPT ![p] = read]
        /\ UNCHANGED <<now, quota, grant, settled, call, bought, used>>
    BY <1>1 DEF BeginSettlement
  <2> HIDE DEF read
  <2>3. QuotaTypeOK'
    BY <2>1, <2>2 DEF QuotaInv
  <2> QED
    BY <2>2, <2>3, ChosenFrame
<1>2. CASE SettlementFails(p)
  <2>1. QuotaTypeOK'
    BY <1>2 DEF SettlementFails, QuotaInv
  <2> QED
    BY <1>2, <2>1, ChosenFrame DEF SettlementFails
<1>3. CASE SettleSubscription(p)
  <2>1. /\ ProductOf[p].kind = "SUBSCRIPTION"
        /\ bought' = bought + Length(ProductOf[p])
        /\ settled' = settled \cup {p}
        /\ settling' = [settling EXCEPT ![p] = NULL]
        /\ UNCHANGED <<now, grant, call, used>>
    BY <1>3 DEF SettleSubscription
  <2>2. bought' \in Nat
    BY <2>1, SubscriptionFields DEF QuotaInv
  <2>3. QuotaTypeOK'
    BY <1>3, <2>1, <2>2, SettledRow DEF QuotaInv
  <2> QED
    BY <2>1, <2>3, ChosenFrame
<1>4. CASE SettlePack(p)
  <2> DEFINE pack == [left |-> PackSize, ends |-> settling[p].at + PackLife]
  <2>1. pack \in Grant
    BY <1>4, ReadFields, QuotaAssumption DEF SettlePack, QuotaInv, Grant
  <2>2. /\ grant' = [grant EXCEPT ![p] = pack]
        /\ settled' = settled \cup {p}
        /\ settling' = [settling EXCEPT ![p] = NULL]
        /\ UNCHANGED <<now, quota, call, bought, used>>
    BY <1>4 DEF SettlePack
  <2>3. pack # NULL
    BY <2>1, QuotaNullAssumption
  <2> HIDE DEF pack
  <2>4. QuotaTypeOK'
    BY <2>1, <2>2 DEF QuotaInv
  <2>5. \A q \in Payments : grant[q] # NULL => grant'[q] # NULL
    BY <2>2, <2>3 DEF QuotaInv
  <2> QED
    BY <2>2, <2>4, <2>5, ChosenFrame
<1> QED
  BY <1>1, <1>2, <1>3, <1>4

LEMMA QuotaTypeStep == QuotaInv /\ [QuotaNext]_quotaVars => QuotaInv'
<1> SUFFICES ASSUME QuotaInv, [QuotaNext]_quotaVars
             PROVE  QuotaInv'
  OBVIOUS
<1>1. CASE Tick
  <2>1. QuotaTypeOK'
    BY <1>1 DEF Tick, QuotaInv, QuotaTypeOK
  <2> QED
    BY <1>1, <2>1, ChosenFrame DEF Tick
<1>2. CASE UNCHANGED quotaVars
  <2>1. QuotaTypeOK'
    BY <1>2 DEF quotaVars, QuotaInv, QuotaTypeOK
  <2> QED
    BY <1>2, <2>1, ChosenFrame DEF quotaVars
<1> QED
  BY <1>1, <1>2, SessionTypes, SettlementTypes DEF QuotaNext

LEMMA QuotaTypeInit == QuotaInit => QuotaInv
  BY QuotaAssumption
     DEF QuotaInit, QuotaInv, QuotaTypeOK, ChosenGrantsExist, InCall, QuotaRow, Plan

\* The row, grants and snapshots keep their types for any sessions and
\* payments; in particular no counter falls below zero.
THEOREM QuotaTypes == QuotaSpec => []QuotaTypeOK
<1>1. QuotaInv => QuotaTypeOK
  BY DEF QuotaInv
<1> QED
  BY QuotaTypeInit, QuotaTypeStep, <1>1, PTL DEF QuotaSpec

LEMMA QuotaTypesHold == QuotaSpec => []QuotaInv
  BY QuotaTypeInit, QuotaTypeStep, PTL DEF QuotaSpec

----------------------------------------------------------------------------
(* Time on a paid plan.  Every end of a plan that anyone holds (the row,   *)
(* its pending plan, a row a session is about to write, what a settlement  *)
(* has read) is backed: what is left until then has been paid for, on top  *)
(* of the time already used.  One payment may back several of these ends,  *)
(* because only one of them can be the row's in the end.                   *)

Backed(end, t, u, b) == end <= t \/ u + (end - t) <= b

RowBacked(row, t, u, b) ==
    /\ Backed(row.ends, t, u, b)
    /\ row.pending # NULL => Backed(row.pending.ends, t, u, b)

CallsBacked ==
    \A s \in Sessions :
        InCall(s, "reset") => RowBacked(call[s].row, now, used, bought)

ReadsBacked ==
    \A p \in Payments : settling[p] # NULL =>
        /\ Backed(settling[p].ends, now, used, bought)
        /\ settling[p].at <= now

CoverInv ==
    /\ used <= bought
    /\ RowBacked(quota, now, used, bought)
    /\ CallsBacked
    /\ ReadsBacked

\* What time and payments do to an end: it stays backed.
Onward(t, u, b, t2, u2, b2) ==
    \/ t2 = t /\ u2 = u /\ b2 >= b
    \/ t2 = t + 1 /\ u2 \in {u, u + 1} /\ b2 = b

LEMMA BackedOnward ==
    ASSUME NEW end \in Nat, NEW t \in Nat, NEW u \in Nat, NEW b \in Nat,
           NEW t2 \in Nat, NEW u2 \in Nat, NEW b2 \in Nat,
           Onward(t, u, b, t2, u2, b2), Backed(end, t, u, b)
    PROVE  Backed(end, t2, u2, b2)
BY DEF Onward, Backed

LEMMA RowEnds ==
    ASSUME NEW row \in QuotaRow
    PROVE  row.ends \in Nat /\ (row.pending # NULL => row.pending.ends \in Nat)
BY DEF QuotaRow, Pending

LEMMA RowOnward ==
    ASSUME NEW row \in QuotaRow, NEW t \in Nat, NEW u \in Nat, NEW b \in Nat,
           NEW t2 \in Nat, NEW u2 \in Nat, NEW b2 \in Nat,
           Onward(t, u, b, t2, u2, b2), RowBacked(row, t, u, b)
    PROVE  RowBacked(row, t2, u2, b2)
BY RowEnds, BackedOnward DEF RowBacked

\* Bringing a row up to date only moves an end it has.
LEMMA ResetBacked ==
    ASSUME NEW row \in QuotaRow, NEW t \in Nat, NEW u \in Nat, NEW b \in Nat,
           RowBacked(row, t, u, b)
    PROVE  RowBacked(ResetRow(row, t), t, u, b)
<1>1. Backed(0, t, u, b)
  BY DEF Backed
<1>2. Backed(EffectiveEnds(row, t), t, u, b)
  BY <1>1 DEF EffectiveEnds, PendingDue, RowBacked
<1>3. /\ ResetRow(row, t).ends = EffectiveEnds(row, t)
      /\ ResetRow(row, t).pending = IF PendingDue(row, t) THEN NULL ELSE row.pending
  BY DEF ResetRow
<1> QED
  BY <1>2, <1>3 DEF RowBacked

\* Whoever is on a paid plan now has paid for one more unit of time.
LEMMA PaidPlanHasTime ==
    ASSUME QuotaInv, CoverInv, OnPaidPlan
    PROVE  used + 1 <= bought
<1>1. /\ quota.ends \in Nat
      /\ quota.pending # NULL => quota.pending.ends \in Nat
      /\ now \in Nat /\ used \in Nat /\ bought \in Nat
  BY RowEnds DEF QuotaInv, QuotaTypeOK
<1>2. CASE PendingDue(quota, now)
  <2>1. quota.pending # NULL /\ quota.pending.ends > now
    BY <1>2 DEF PendingDue
  <2> QED
    BY <1>1, <2>1 DEF CoverInv, RowBacked, Backed
<1>3. CASE ~PendingDue(quota, now)
  <2>1. quota.ends > now
    BY <1>1, <1>3 DEF OnPaidPlan, EffectivePlan, PlanExpired
  <2> QED
    BY <1>1, <2>1 DEF CoverInv, RowBacked, Backed
<1> QED
  BY <1>2, <1>3

\* Time and payments leave what the sessions and settlements hold backed.
LEMMA HeldOnward ==
    ASSUME QuotaInv, QuotaInv', CoverInv,
           Onward(now, used, bought, now', used', bought')
    PROVE  /\ call' = call => CallsBacked'
           /\ \A p \in Payments : settling'[p] \in {NULL, settling[p]}
                  => (settling'[p] # NULL =>
                          /\ Backed(settling'[p].ends, now', used', bought')
                          /\ settling'[p].at <= now')
<1>0. /\ now \in Nat /\ used \in Nat /\ bought \in Nat
      /\ now' \in Nat /\ used' \in Nat /\ bought' \in Nat
  BY DEF QuotaInv, QuotaTypeOK
<1>1. ASSUME call' = call, NEW s \in Sessions, InCall(s, "reset")'
      PROVE  RowBacked(call'[s].row, now', used', bought')
  <2>1. InCall(s, "reset")
    BY <1>1 DEF InCall
  <2>2. call[s].row \in QuotaRow
    BY <2>1, CallFields DEF QuotaInv
  <2>3. RowBacked(call[s].row, now, used, bought)
    BY <2>1 DEF CoverInv, CallsBacked
  <2> QED
    BY <1>0, <1>1, <2>2, <2>3, RowOnward
<1>2. ASSUME NEW p \in Payments, settling'[p] = settling[p], settling[p] # NULL
      PROVE  /\ Backed(settling[p].ends, now', used', bought')
             /\ settling[p].at <= now'
  <2>1. settling[p].ends \in Nat /\ settling[p].at \in Nat
    BY <1>2, ReadFields DEF QuotaInv
  <2>2. Backed(settling[p].ends, now, used, bought) /\ settling[p].at <= now
    BY <1>2 DEF CoverInv, ReadsBacked
  <2>3. Backed(settling[p].ends, now', used', bought')
    BY <1>0, <2>1, <2>2, BackedOnward
  <2>4. settling[p].at <= now'
    BY <1>0, <2>1, <2>2 DEF Onward
  <2> QED
    BY <2>3, <2>4
<1> QED
  BY <1>1, <1>2 DEF CallsBacked

\* A step of a session: what it holds next must be backed, and so must the
\* row it writes.
LEMMA SessionCover ==
    ASSUME QuotaInv, CoverInv, NEW s \in Sessions, NEW c,
           Continue(s, c),
           UNCHANGED <<now, settling, bought, used>>,
           RowBacked(quota', now, used, bought),
           c # NULL /\ c.op = "reset" => RowBacked(c.row, now, used, bought)
    PROVE  CoverInv'
<1>1. ASSUME NEW v \in Sessions, InCall(v, "reset")'
      PROVE  RowBacked(call'[v].row, now, used, bought)
  <2>1. CASE v = s
    <3>1. call'[v] = c
      BY <2>1 DEF Continue, QuotaInv, QuotaTypeOK
    <3> QED
      BY <1>1, <3>1 DEF InCall
  <2>2. CASE v # s
    <3>1. call'[v] = call[v]
      BY <2>2 DEF Continue, QuotaInv, QuotaTypeOK
    <3>2. InCall(v, "reset")
      BY <1>1, <3>1 DEF InCall
    <3> QED
      BY <3>1, <3>2 DEF CoverInv, CallsBacked
  <2> QED
    BY <2>1, <2>2
<1> QED
  BY <1>1 DEF CoverInv, CallsBacked, ReadsBacked

LEMMA SessionStepCover ==
    ASSUME QuotaInv, CoverInv, NEW s \in Sessions,
           \/ ReadExpired(s) \/ ReadCurrent(s) \/ ResetPeriod(s)
           \/ ChoosePlan(s) \/ SpendGrant(s) \/ SpendPlan(s) \/ Abandon(s)
           \/ \E p \in Payments : ChooseGrant(s, p)
    PROVE  CoverInv'
<1> USE DEF Finish
<1>0. /\ quota \in QuotaRow /\ now \in Nat /\ used \in Nat /\ bought \in Nat
      /\ RowBacked(quota, now, used, bought)
  BY DEF QuotaInv, QuotaTypeOK, CoverInv
<1>1. CASE ReadExpired(s)
  <2> DEFINE row == ResetRow(quota, now)
             c == [op |-> "reset", row |-> row]
  <2>1. RowBacked(row, now, used, bought)
    BY <1>0, ResetBacked
  <2>2. c.row = row
    OBVIOUS
  <2>3. Continue(s, c) /\ UNCHANGED <<now, quota, settling, bought, used>>
    BY <1>1 DEF ReadExpired
  <2> HIDE DEF c, row
  <2> QED
    BY <1>0, <2>1, <2>2, <2>3, SessionCover
<1>2. CASE ReadCurrent(s)
  <2> DEFINE c == [op |-> "offer"]
  <2>1. c.op # "reset"
    OBVIOUS
  <2>2. Continue(s, c) /\ UNCHANGED <<now, quota, settling, bought, used>>
    BY <1>2 DEF ReadCurrent
  <2> HIDE DEF c
  <2> QED
    BY <1>0, <2>1, <2>2, SessionCover
<1>3. CASE ResetPeriod(s)
  <2> DEFINE c == [op |-> "offer"]
  <2>1. c.op # "reset"
    OBVIOUS
  <2>2. RowBacked(quota', now, used, bought)
    BY <1>3 DEF ResetPeriod, CoverInv, CallsBacked
  <2>3. UNCHANGED <<now, settling, bought, used>>
    BY <1>3 DEF ResetPeriod
  <2>4. Continue(s, c) \/ Continue(s, NULL)
    BY <1>3 DEF ResetPeriod
  <2> HIDE DEF c
  <2> QED
    BY <2>1, <2>2, <2>3, <2>4, SessionCover
<1>4. CASE ChoosePlan(s)
  <2> DEFINE c == [op |-> "spendPlan"]
  <2>1. c.op # "reset"
    OBVIOUS
  <2>2. Continue(s, c) /\ UNCHANGED <<now, quota, settling, bought, used>>
    BY <1>4 DEF ChoosePlan
  <2> HIDE DEF c
  <2> QED
    BY <1>0, <2>1, <2>2, SessionCover
<1>5. CASE SpendGrant(s)
  BY <1>0, <1>5, SessionCover DEF SpendGrant
<1>6. CASE SpendPlan(s)
  <2>1. quota'.ends = quota.ends /\ quota'.pending = quota.pending
    BY <1>0, <1>6 DEF SpendPlan, QuotaRow
  <2>2. RowBacked(quota', now, used, bought)
    BY <1>0, <2>1 DEF RowBacked
  <2>3. Continue(s, NULL) /\ UNCHANGED <<now, settling, bought, used>>
    BY <1>6 DEF SpendPlan
  <2> QED
    BY <2>2, <2>3, SessionCover
<1>7. CASE Abandon(s)
  BY <1>0, <1>7, SessionCover DEF Abandon
<1>8. ASSUME NEW p \in Payments, ChooseGrant(s, p)
      PROVE  CoverInv'
  <2> DEFINE c == [op |-> "spendGrant", grant |-> p]
  <2>1. c.op # "reset"
    OBVIOUS
  <2>2. Continue(s, c) /\ UNCHANGED <<now, quota, settling, bought, used>>
    BY <1>8 DEF ChooseGrant
  <2> HIDE DEF c
  <2> QED
    BY <1>0, <2>1, <2>2, SessionCover
<1> QED
  BY <1>1, <1>2, <1>3, <1>4, <1>5, <1>6, <1>7, <1>8

\* What a settled subscription writes into the row, it has just paid for.
LEMMA SettledBacked ==
    ASSUME QuotaInv, CoverInv, NEW p \in Payments, SettleSubscription(p)
    PROVE  RowBacked(quota', now, used, bought')
<1> DEFINE product == ProductOf[p]
           read == settling[p]
           length == Length(product)
<1>1. /\ read # NULL /\ product.kind = "SUBSCRIPTION"
      /\ Downgrade(product, read) \/ Renew(product, read) \/ StartPlan(product, read)
      /\ bought' = bought + length
  BY DEF SettleSubscription
<1>2. /\ read.ends \in Nat /\ read.at \in Nat /\ length \in Nat
      /\ now \in Nat /\ used \in Nat /\ bought \in Nat /\ quota \in QuotaRow
  BY <1>1, ReadFields, SubscriptionFields DEF QuotaInv, QuotaTypeOK
<1>3. Backed(read.ends, now, used, bought) /\ read.at <= now /\ used <= bought
  BY <1>1 DEF CoverInv, ReadsBacked
<1>4. RowBacked(quota, now, used, bought')
  <2>1. bought' \in Nat /\ bought' >= bought
    BY <1>1, <1>2
  <2>2. Onward(now, used, bought, now, used, bought')
    BY <2>1 DEF Onward
  <2> QED
    BY <1>2, <2>1, <2>2, RowOnward DEF CoverInv
<1>5. Backed(read.ends + length, now, used, bought')
  BY <1>1, <1>2, <1>3 DEF Backed
<1>6. Backed(read.at + length, now, used, bought')
  BY <1>1, <1>2, <1>3 DEF Backed
<1> HIDE DEF product, read
<1>7. CASE Downgrade(product, read)
  <2> DEFINE next == [plan |-> product.plan, starts |-> read.ends,
                      ends |-> read.ends + length]
  <2>1. next.ends = read.ends + length
    OBVIOUS
  <2>2. quota' = [quota EXCEPT !.pending = next]
    BY <1>7 DEF Downgrade
  <2> HIDE DEF next
  <2>3. quota'.ends = quota.ends /\ quota'.pending = next
    BY <1>2, <2>2 DEF QuotaRow
  <2> QED
    BY <1>4, <1>5, <2>1, <2>3 DEF RowBacked
<1>8. CASE Renew(product, read)
  <2>1. quota'.ends = read.ends + length /\ quota'.pending = quota.pending
    BY <1>2, <1>8 DEF Renew, QuotaRow
  <2> QED
    BY <1>4, <1>5, <2>1 DEF RowBacked
<1>9. CASE StartPlan(product, read)
  <2>1. quota'.ends = read.at + length /\ quota'.pending = NULL
    BY <1>9 DEF StartPlan
  <2> QED
    BY <1>6, <2>1 DEF RowBacked
<1> QED
  BY <1>1, <1>7, <1>8, <1>9

LEMMA SettlementCover ==
    ASSUME QuotaInv, QuotaInv', CoverInv, NEW p \in Payments,
           \/ BeginSettlement(p) \/ SettlementFails(p)
           \/ SettleSubscription(p) \/ SettlePack(p)
    PROVE  CoverInv'
<1>0. /\ now \in Nat /\ used \in Nat /\ bought \in Nat /\ bought' \in Nat
      /\ settling \in [Payments -> Read \cup {NULL}]
      /\ used <= bought /\ RowBacked(quota, now, used, bought)
  BY DEF QuotaInv, QuotaTypeOK, CoverInv
<1>1. CASE BeginSettlement(p)
  <2> DEFINE read == [plan |-> quota.plan, ends |-> quota.ends, at |-> now]
  <2>1. /\ settling' = [settling EXCEPT ![p] = read]
        /\ UNCHANGED <<now, quota, call, bought, used>>
    BY <1>1 DEF BeginSettlement
  <2>2. read.ends = quota.ends /\ read.at = now
    OBVIOUS
  <2> HIDE DEF read
  <2>3. CallsBacked'
    BY <2>1 DEF CoverInv, CallsBacked, InCall
  <2>4. ReadsBacked'
    BY <1>0, <2>1, <2>2 DEF CoverInv, ReadsBacked, RowBacked
  <2> QED
    BY <1>0, <2>1, <2>3, <2>4 DEF CoverInv
<1>2. ASSUME settling' = [settling EXCEPT ![p] = NULL],
             UNCHANGED <<now, call, used>>,
             bought' >= bought,
             RowBacked(quota', now, used, bought')
      PROVE  CoverInv'
  <2>1. Onward(now, used, bought, now', used', bought')
    BY <1>2 DEF Onward
  <2>2. \A q \in Payments : settling'[q] \in {NULL, settling[q]}
    BY <1>0, <1>2
  <2>3. CallsBacked' /\ ReadsBacked'
    BY <1>2, <2>1, <2>2, HeldOnward DEF ReadsBacked
  <2>4. used' <= bought'
    BY <1>0, <1>2
  <2> QED
    BY <1>2, <2>3, <2>4 DEF CoverInv
<1>3. CASE SettlementFails(p)
  BY <1>0, <1>2, <1>3 DEF SettlementFails
<1>4. CASE SettleSubscription(p)
  <2>1. ProductOf[p].kind = "SUBSCRIPTION" /\ bought' = bought + Length(ProductOf[p])
    BY <1>4 DEF SettleSubscription
  <2>2. bought' >= bought
    BY <1>0, <2>1, SubscriptionFields
  <2> QED
    BY <1>2, <1>4, <2>2, SettledBacked DEF SettleSubscription
<1>5. CASE SettlePack(p)
  BY <1>0, <1>2, <1>5 DEF SettlePack
<1> QED
  BY <1>1, <1>3, <1>4, <1>5

LEMMA TickCover ==
    ASSUME QuotaInv, QuotaInv', CoverInv, Tick
    PROVE  CoverInv'
<1>1. /\ now \in Nat /\ used \in Nat /\ bought \in Nat
      /\ now' \in Nat /\ used' \in Nat /\ quota \in QuotaRow
  BY DEF QuotaInv, QuotaTypeOK
<1>2. UNCHANGED <<quota, settling, call, bought>>
  BY DEF Tick
<1>3. Onward(now, used, bought, now', used', bought')
  BY <1>2 DEF Tick, Onward
<1>4. used' <= bought'
  BY <1>1, <1>2, PaidPlanHasTime DEF Tick, CoverInv
<1>5. RowBacked(quota', now', used', bought')
  BY <1>1, <1>2, <1>3, RowOnward DEF CoverInv
<1>6. CallsBacked' /\ ReadsBacked'
  BY <1>2, <1>3, HeldOnward DEF ReadsBacked
<1> QED
  BY <1>4, <1>5, <1>6 DEF CoverInv

LEMMA CoverStep ==
    QuotaInv /\ QuotaInv' /\ CoverInv /\ [QuotaNext]_quotaVars => CoverInv'
<1> SUFFICES ASSUME QuotaInv, QuotaInv', CoverInv, [QuotaNext]_quotaVars
             PROVE  CoverInv'
  OBVIOUS
<1>1. CASE UNCHANGED quotaVars
  BY <1>1 DEF quotaVars, CoverInv, CallsBacked, ReadsBacked, InCall
<1> QED
  BY <1>1, TickCover, SessionStepCover, SettlementCover DEF QuotaNext

LEMMA CoverInit == QuotaInit => CoverInv
  BY DEF QuotaInit, CoverInv, CallsBacked, ReadsBacked, InCall, RowBacked, Backed

\* However resets computed from old reads, renewals, upgrades and downgrades
\* overwrite each other, nobody is on a paid plan for longer than he paid for.
THEOREM PlanTimePaid == QuotaSpec => []PlanTimeIsPaid
<1>1. QuotaInv /\ CoverInv => PlanTimeIsPaid
  BY DEF CoverInv, PlanTimeIsPaid
<1> QED
  BY QuotaTypesHold, CoverInit, CoverStep, <1>1, PTL DEF QuotaSpec

----------------------------------------------------------------------------
(* Packs of offers.  What keeps a pack from being given twice is that a    *)
(* payment under settlement was never settled.                             *)

SettlementsAreFresh ==
    \A p \in Payments : settling[p] # NULL => p \notin settled

GrantsAreSettled ==
    \A p \in Payments : grant[p] # NULL <=> p \in settled /\ p \in PackPayments

PackInv == SettlementsAreFresh /\ GrantsAreSettled

\* What the abstract specification sees of the grants.
PacksLeft ==
    [p \in PackPayments |-> IF grant[p] = NULL THEN NULL ELSE grant[p].left]

PacksGiven == settled \cap PackPayments

PacksUnchanged == PacksGiven' = PacksGiven /\ PacksLeft' = PacksLeft

LEMMA PackInit == QuotaInit => PackInv /\ Pack!PacksInit
  BY DEF QuotaInit, PackInv, SettlementsAreFresh, GrantsAreSettled, PackPayments,
         Pack!PacksInit

\* Steps that leave the grants and what is settled.
LEMMA PackFrame ==
    ASSUME PackInv, UNCHANGED <<grant, settled>>,
           \A p \in Payments :
               settling'[p] # NULL => settling[p] # NULL \/ p \notin settled
    PROVE  PackInv' /\ PacksUnchanged
  BY DEF PackInv, SettlementsAreFresh, GrantsAreSettled, PacksUnchanged,
         PacksGiven, PacksLeft, PackPayments

\* Two sessions may have chosen one pack: the second finds it spent.
LEMMA SpendKeepsPacks ==
    ASSUME QuotaInv, PackInv, NEW s \in Sessions, SpendGrant(s)
    PROVE  PackInv' /\ (Pack!PacksNext \/ PacksUnchanged)
<1>1. /\ call[s].grant \in Payments
      /\ grant[call[s].grant] # NULL
      /\ UNCHANGED <<settled, settling>>
  BY CallFields DEF SpendGrant, QuotaInv, ChosenGrantsExist
<1> PICK p \in Payments : p = call[s].grant
  BY <1>1
<1>2. grant[p] \in Grant /\ grant \in [Payments -> Grant \cup {NULL}]
  BY <1>1 DEF QuotaInv, QuotaTypeOK
<1>3. p \in PackPayments /\ p \in settled
  BY <1>1 DEF PackInv, GrantsAreSettled
<1>4. CASE ~(grant[p].left > 0)
  <2>1. grant' = grant
    BY <1>4 DEF SpendGrant
  <2> QED
    BY <1>1, <2>1, PackFrame
<1>5. CASE grant[p].left > 0
  <2> DEFINE spent == [grant[p] EXCEPT !.left = grant[p].left - 1]
  <2>1. grant' = [grant EXCEPT ![p] = spent]
    BY <1>5 DEF SpendGrant
  <2>2. spent \in Grant /\ spent.left = grant[p].left - 1 /\ grant[p].left # 0
    BY <1>2, <1>5 DEF Grant
  <2>3. spent # NULL
    BY <2>2, QuotaNullAssumption
  <2> HIDE DEF spent
  <2>4. \A q \in Payments : grant'[q] = IF q = p THEN spent ELSE grant[q]
    BY <1>2, <2>1
  <2>5. PackInv'
    BY <1>1, <1>3, <2>3, <2>4
       DEF PackInv, SettlementsAreFresh, GrantsAreSettled, PackPayments
  <2>6. PacksLeft[p] = grant[p].left /\ PacksLeft'[p] = spent.left
    BY <1>1, <1>3, <2>3, <2>4 DEF PacksLeft
  <2>7. PacksLeft' = [PacksLeft EXCEPT ![p] = PacksLeft[p] - 1]
    BY <1>3, <2>2, <2>4, <2>6 DEF PacksLeft, PackPayments
  <2>8. PacksGiven' = PacksGiven /\ p \in PacksGiven
    BY <1>1, <1>3 DEF PacksGiven, PackPayments
  <2>9. Pack!Spend(p)
    BY <2>2, <2>6, <2>7, <2>8 DEF Pack!Spend, PacksLeft, PacksGiven
  <2> QED
    BY <1>3, <2>5, <2>9 DEF Pack!PacksNext
<1> QED
  BY <1>4, <1>5

LEMMA SettlementKeepsPacks ==
    ASSUME QuotaInv, PackInv, NEW p \in Payments,
           SettleSubscription(p) \/ SettlePack(p)
    PROVE  PackInv' /\ (Pack!PacksNext \/ PacksUnchanged)
<1>1. /\ settling[p] # NULL
      /\ settled' = settled \cup {p}
      /\ settling' = [settling EXCEPT ![p] = NULL]
  BY DEF SettleSubscription, SettlePack
<1>2. p \notin settled /\ grant[p] = NULL
  BY <1>1 DEF PackInv, SettlementsAreFresh, GrantsAreSettled
<1>3. SettlementsAreFresh'
  BY <1>1 DEF PackInv, SettlementsAreFresh, QuotaInv, QuotaTypeOK
<1>4. CASE SettleSubscription(p)
  <2>1. grant' = grant /\ p \notin PackPayments
    BY <1>4 DEF SettleSubscription, PackPayments
  <2>2. GrantsAreSettled'
    BY <1>1, <2>1 DEF PackInv, GrantsAreSettled, PackPayments
  <2>3. PacksUnchanged
    BY <1>1, <2>1 DEF PacksUnchanged, PacksGiven, PacksLeft, PackPayments
  <2> QED
    BY <1>3, <2>2, <2>3 DEF PackInv
<1>5. CASE SettlePack(p)
  <2> DEFINE pack == [left |-> PackSize, ends |-> settling[p].at + PackLife]
  <2>1. grant' = [grant EXCEPT ![p] = pack] /\ p \in PackPayments
    BY <1>5 DEF SettlePack, PackPayments
  <2>2. pack \in Grant /\ pack.left = PackSize
    BY <1>1, ReadFields, QuotaAssumption DEF QuotaInv, Grant
  <2>3. pack # NULL
    BY <2>2, QuotaNullAssumption
  <2> HIDE DEF pack
  <2>4. \A q \in Payments : grant'[q] = IF q = p THEN pack ELSE grant[q]
    BY <2>1 DEF QuotaInv, QuotaTypeOK
  <2>5. GrantsAreSettled'
    BY <1>1, <2>1, <2>3, <2>4 DEF PackInv, GrantsAreSettled, PackPayments
  <2>6. PacksLeft' = [PacksLeft EXCEPT ![p] = PackSize]
    <3>1. /\ PacksLeft = [q \in PackPayments |->
                 IF grant[q] = NULL THEN NULL ELSE grant[q].left]
          /\ PacksLeft' = [q \in PackPayments |->
                 IF grant'[q] = NULL THEN NULL ELSE grant'[q].left]
      BY DEF PacksLeft, PackPayments
    <3>2. ASSUME NEW q \in PackPayments
          PROVE  grant'[q] = IF q = p THEN pack ELSE grant[q]
      BY <2>4 DEF PackPayments
    <3> QED
      BY <2>1, <2>2, <2>3, <3>1, <3>2
  <2>7. p \notin PacksGiven /\ PacksGiven' = PacksGiven \cup {p}
    BY <1>1, <1>2, <2>1 DEF PacksGiven, PackPayments
  <2>8. Pack!Give(p)
    BY <2>6, <2>7 DEF Pack!Give, PacksLeft, PacksGiven
  <2> QED
    BY <1>3, <2>1, <2>5, <2>8 DEF PackInv, Pack!PacksNext
<1> QED
  BY <1>4, <1>5

LEMMA PackStep ==
    ASSUME QuotaInv, PackInv, [QuotaNext]_quotaVars
    PROVE  PackInv' /\ (Pack!PacksNext \/ PacksUnchanged)
<1>1. CASE \/ Tick \/ UNCHANGED quotaVars
           \/ \E s \in Sessions :
                  \/ ReadExpired(s) \/ ReadCurrent(s) \/ ResetPeriod(s)
                  \/ ChoosePlan(s) \/ SpendPlan(s) \/ Abandon(s)
           \/ \E s \in Sessions, p \in Payments : ChooseGrant(s, p)
  <2>1. UNCHANGED <<grant, settled, settling>>
    BY <1>1 DEF Tick, quotaVars, ReadExpired, ReadCurrent, ResetPeriod, ChoosePlan,
                SpendPlan, Abandon, ChooseGrant
  <2> QED
    BY <2>1, PackFrame
<1>2. ASSUME NEW p \in Payments, BeginSettlement(p) \/ SettlementFails(p)
      PROVE  PackInv' /\ PacksUnchanged
  <2>1. UNCHANGED <<grant, settled>>
    BY <1>2 DEF BeginSettlement, SettlementFails
  <2>2. ASSUME NEW q \in Payments, settling'[q] # NULL
        PROVE  settling[q] # NULL \/ q \notin settled
    BY <1>2, <2>2 DEF BeginSettlement, SettlementFails, QuotaInv, QuotaTypeOK
  <2> QED
    BY <2>1, <2>2, PackFrame
<1> QED
  BY <1>1, <1>2, SpendKeepsPacks, SettlementKeepsPacks DEF QuotaNext

\* A pack is given once, in full, by the settlement of its payment, and spent
\* one offer at a time down to nothing, for any sessions, payments and sizes.
THEOREM PacksAreGivenOnce == QuotaSpec => PacksAreBought
<1>1. QuotaInv /\ PackInv /\ [QuotaNext]_quotaVars => PackInv'
  BY PackStep
<1>2. QuotaInv /\ PackInv /\ [QuotaNext]_quotaVars => [Pack!PacksNext]_Pack!packVars
  BY PackStep DEF Pack!packVars, PacksUnchanged, PacksGiven, PacksLeft
<1> QED
  BY QuotaTypesHold, PackInit, <1>1, <1>2, PTL
     DEF QuotaSpec, PacksAreBought, Pack!PacksSpec

\* What the promise entails, whoever keeps it: packs are of settled payments,
\* and no more is left of one than it held.
THEOREM KeptPacksAreOfPayments == Pack!PacksSpec => []Pack!PacksAreOfPayments
<1> DEFINE AreOfPayments ==
               \A p \in PackPayments :
                   IF p \in PacksGiven THEN PacksLeft[p] \in 0 .. PackSize
                                       ELSE PacksLeft[p] = NULL
<1>1. Pack!PacksInit => AreOfPayments
  BY DEF Pack!PacksInit, PacksGiven, PacksLeft
<1>2. AreOfPayments /\ [Pack!PacksNext]_Pack!packVars => AreOfPayments'
  <2> SUFFICES ASSUME AreOfPayments, [Pack!PacksNext]_Pack!packVars
               PROVE  AreOfPayments'
    OBVIOUS
  <2>1. PacksLeft = [p \in PackPayments |-> PacksLeft[p]]
    BY DEF PacksLeft
  <2>2. CASE UNCHANGED Pack!packVars
    <3>1. PacksGiven' = PacksGiven /\ PacksLeft' = PacksLeft
      BY <2>2 DEF Pack!packVars, PacksGiven, PacksLeft
    <3> QED
      BY <3>1
  <2>3. ASSUME NEW p \in PackPayments, Pack!Give(p)
        PROVE  AreOfPayments'
    <3>1. /\ PacksGiven' = PacksGiven \cup {p}
          /\ PacksLeft' = [PacksLeft EXCEPT ![p] = PackSize]
      BY <2>3 DEF Pack!Give, PacksGiven, PacksLeft
    <3>2. PackSize \in 0 .. PackSize
      BY QuotaAssumption
    <3> QED
      BY <2>1, <3>1, <3>2
  <2>4. ASSUME NEW p \in PackPayments, Pack!Spend(p)
        PROVE  AreOfPayments'
    <3>1. /\ p \in PacksGiven /\ PacksLeft[p] # 0
          /\ PacksGiven' = PacksGiven
          /\ PacksLeft' = [PacksLeft EXCEPT ![p] = PacksLeft[p] - 1]
      BY <2>4 DEF Pack!Spend, PacksGiven, PacksLeft
    <3>2. PacksLeft[p] \in 0 .. PackSize
      BY <3>1
    <3>3. PacksLeft[p] - 1 \in 0 .. PackSize
      BY <3>1, <3>2, QuotaAssumption
    <3> QED
      BY <2>1, <3>1, <3>3
  <2> QED
    BY <2>2, <2>3, <2>4 DEF Pack!PacksNext
<1>3. AreOfPayments <=> Pack!PacksAreOfPayments
  BY DEF Pack!PacksAreOfPayments, PacksGiven, PacksLeft
<1> QED
  BY <1>1, <1>2, <1>3, PTL DEF Pack!PacksSpec
=============================================================================
