-------------------------- MODULE GovernanceProofs --------------------------
(***************************************************************************)
(* Proofs about Governance for any assets, launch specs, installs and      *)
(* requests, whether or not operators act while a poll is in progress.     *)
(***************************************************************************)
EXTENDS Governance, WellFoundedInduction, TLAPS

(* Whatever a copy of the registry trusts, somebody consented to.          *)
Trusted(g) == {g.bindings[i] : i \in 1..Len(g.bindings)}

Consented(g) == Trusted(g) \subseteq granted

GovernanceInv ==
    /\ TypeOK
    /\ Consented(reg)
    /\ poll # Nothing => Consented(poll)
    /\ RunsOnlyConsented

-----------------------------------------------------------------------------
(* The least and the greatest index of a set of indices                    *)

LEMMA MinExists ==
  ASSUME NEW S \in SUBSET Nat, S # {}
  PROVE  \E i \in S : \A j \in S : i <= j
  <1> DEFINE R == OpToRel(<, Nat)
  <1>1. IsWellFoundedOn(R, Nat)
    BY NatLessThanWellFounded
  <1>2. \A x, y \in Nat : y < x => <<y, x>> \in R
    BY DEF OpToRel
  <1> HIDE DEF R
  <1>3. PICK x \in S : \A y \in S : ~(<<y, x>> \in R)
    BY <1>1, WFMin, Zenon
  <1>4. ASSUME NEW y \in S PROVE x <= y
    <2>1. x \in Nat /\ y \in Nat
      OBVIOUS
    <2>2. ~(y < x)
      BY <1>2, <1>3, <2>1
    <2> QED BY <2>1, <2>2
  <1> QED BY <1>4

LEMMA FirstIsIn ==
  ASSUME NEW S \in SUBSET Nat, S # {}
  PROVE  First(S) \in S
  BY MinExists DEF First

LEMMA LastIsIn ==
  ASSUME NEW n \in Nat, NEW S \in SUBSET (1..n), S # {}
  PROVE  Last(S) \in S
  <1> DEFINE D == {n - i : i \in S}
  <1>1. D \in SUBSET Nat /\ D # {}
    <2>1. \A i \in S : n - i \in Nat
      OBVIOUS
    <2>2. PICK i \in S : TRUE
      OBVIOUS
    <2>3. n - i \in D
      BY <2>2
    <2> QED BY <2>1, <2>3
  <1>2. PICK d \in D : \A e \in D : d <= e
    BY <1>1, MinExists, Zenon
  <1>3. PICK i \in S : d = n - i
    OBVIOUS
  <1>4. \A j \in S : i >= j
    BY <1>2, <1>3
  <1> QED BY <1>4 DEF Last
-----------------------------------------------------------------------------
(* Bindings and attestation                                                *)

LEMMA RowTypes ==
  ASSUME NEW g \in Registry, HasRow(g)
  PROVE  g.row \in Row /\ g.row.sig \in Signature
  BY DEF Registry, HasRow, Row

LEMMA BoundTypes ==
  ASSUME NEW g \in Registry, NEW a, NEW n
  PROVE  /\ BoundAt(g, n) \in SUBSET (1..Len(g.bindings))
         /\ BoundFor(g, a) \in SUBSET (1..Len(g.bindings))
         /\ Len(g.bindings) \in Nat
         /\ \A i \in 1..Len(g.bindings) : g.bindings[i] \in Signature
  BY DEF Registry, BoundAt, BoundFor

LEMMA WithBindings ==
  ASSUME NEW g \in Registry, NEW b \in Seq(Signature)
  PROVE  LET u == [g EXCEPT !.bindings = b]
         IN  u \in Registry /\ u.row = g.row /\ u.bindings = b /\ u.approvals = g.approvals
  BY DEF Registry

LEMMA WithApprovals ==
  ASSUME NEW g \in Registry, NEW a \in Seq(Request)
  PROVE  LET u == [g EXCEPT !.approvals = a]
         IN  u \in Registry /\ u.row = g.row /\ u.bindings = g.bindings /\ u.approvals = a
  BY DEF Registry

LEMMA UpsertTypes ==
  ASSUME NEW g \in Registry, NEW sig \in Signature
  PROVE  /\ Upsert(g, sig) \in Registry
         /\ Upsert(g, sig).row = g.row
         /\ Upsert(g, sig).approvals = g.approvals
         /\ Trusted(Upsert(g, sig)) \subseteq Trusted(g) \cup {sig}
  <1> DEFINE at == BoundAt(g, sig.install)
  <1>1. at \in SUBSET (1..Len(g.bindings)) /\ g.bindings \in Seq(Signature)
    BY BoundTypes DEF Registry
  <1>2. CASE at = {}
    <2>1. Upsert(g, sig) = [g EXCEPT !.bindings = Append(g.bindings, sig)]
      BY <1>2 DEF Upsert
    <2> DEFINE b == Append(g.bindings, sig)
    <2>2. b \in Seq(Signature) /\ \A i \in 1..Len(b) : b[i] \in Trusted(g) \cup {sig}
      BY <1>1 DEF Trusted
    <2>4. Upsert(g, sig) = [g EXCEPT !.bindings = b]
      BY <2>1
    <2> HIDE DEF b
    <2>3. /\ Upsert(g, sig) \in Registry /\ Upsert(g, sig).row = g.row
          /\ Upsert(g, sig).bindings = b /\ Upsert(g, sig).approvals = g.approvals
      BY <2>2, <2>4, WithBindings
    <2>5. {b[i] : i \in 1..Len(b)} \subseteq Trusted(g) \cup {sig}
      BY <2>2
    <2>6. Trusted(Upsert(g, sig)) = {b[i] : i \in 1..Len(b)}
      BY <2>3 DEF Trusted
    <2> QED BY <2>3, <2>5, <2>6
  <1>3. CASE at # {}
    <2>1. First(at) \in 1..Len(g.bindings)
      BY <1>1, <1>3, FirstIsIn
    <2> DEFINE b == [g.bindings EXCEPT ![First(at)] = sig]
    <2>2. Upsert(g, sig) = [g EXCEPT !.bindings = b]
      BY <1>3 DEF Upsert
    <2>3. b \in Seq(Signature) /\ Len(b) = Len(g.bindings)
      BY <1>1, <2>1
    <2>4. \A i \in 1..Len(b) : b[i] \in Trusted(g) \cup {sig}
      BY <1>1, <2>1, <2>3 DEF Trusted
    <2> HIDE DEF b
    <2>5. /\ Upsert(g, sig) \in Registry /\ Upsert(g, sig).row = g.row
          /\ Upsert(g, sig).bindings = b /\ Upsert(g, sig).approvals = g.approvals
      BY <2>2, <2>3, WithBindings
    <2>6. {b[i] : i \in 1..Len(b)} \subseteq Trusted(g) \cup {sig}
      BY <2>4
    <2>7. Trusted(Upsert(g, sig)) = {b[i] : i \in 1..Len(b)}
      BY <2>5 DEF Trusted
    <2> QED BY <2>5, <2>6, <2>7
  <1> QED BY <1>2, <1>3

LEMMA EnsureTypes ==
  ASSUME NEW g \in Registry, HasRow(g), NEW replace \in BOOLEAN
  PROVE  LET e == EnsureBinding(g, replace)
         IN  /\ e \in Registry
             /\ e.row \in Row
             /\ e.row.gated = g.row.gated
             /\ Trusted(e) \subseteq Trusted(g) \cup {e.row.sig}
  <1> DEFINE sig == g.row.sig
             existing == IF BoundAt(g, sig.install) # {} THEN BoundAt(g, sig.install)
                         ELSE BoundFor(g, sig.asset)
             other == [g EXCEPT !.row.sig.install = g.bindings[First(existing)].install]
             adopted == IF existing = {} THEN g ELSE other
  <1>1. existing \in SUBSET (1..Len(g.bindings))
    BY BoundTypes
  <1>2. adopted \in Registry /\ adopted.row \in Row /\ adopted.row.gated = g.row.gated
        /\ adopted.bindings = g.bindings
    <2>1. CASE existing = {}
      BY <2>1, RowTypes
    <2>2. CASE existing # {}
      <3> HIDE DEF existing
      <3>1. First(existing) \in 1..Len(g.bindings)
        <4>1. existing \in SUBSET Nat
          BY <1>1, BoundTypes
        <4>2. First(existing) \in existing
          BY <2>2, <4>1, FirstIsIn
        <4> QED BY <1>1, <4>2
      <3>2. g.bindings[First(existing)].install \in 1..MaxInstalls
        BY <3>1, BoundTypes DEF Signature
      <3>3. other.row = [g.row EXCEPT !.sig.install = g.bindings[First(existing)].install]
        BY RowTypes DEF Registry
      <3>4. other.row \in Row /\ other.row.gated = g.row.gated
        BY <3>2, <3>3, RowTypes DEF Row, Signature
      <3>5. other \in Registry /\ other.bindings = g.bindings
        BY <3>4 DEF Registry
      <3> QED BY <2>2, <3>4, <3>5
    <2> QED BY <2>1, <2>2
  <1>3. EnsureBinding(g, replace) =
          IF existing = {} \/ replace THEN Upsert(adopted, adopted.row.sig) ELSE adopted
    BY DEF EnsureBinding
  <1>4. adopted.row.sig \in Signature
    BY <1>2 DEF Row
  <1>5. Trusted(adopted) = Trusted(g)
    BY <1>2 DEF Trusted
  <1> HIDE DEF adopted, existing
  <1>6. LET u == Upsert(adopted, adopted.row.sig)
        IN  u \in Registry /\ u.row = adopted.row /\ Trusted(u) \subseteq Trusted(g) \cup {adopted.row.sig}
    BY <1>2, <1>4, <1>5, UpsertTypes
  <1> QED BY <1>2, <1>3, <1>5, <1>6

(* What attestation leaves alone.                                          *)
SameClaim(e, g) ==
    /\ e \in Registry
    /\ e.row \in Row
    /\ e.row.sig = g.row.sig /\ e.row.gated = g.row.gated /\ e.row.desired = g.row.desired
    /\ e.bindings = g.bindings

LEMMA AttestTypes ==
  ASSUME NEW g \in Registry, HasRow(g), NEW s \in {"verified", "drifted", "unknown", "blocked"},
         NEW a \in {"not_required", "pending", "rejected"}, NEW n \in Nat
  PROVE  /\ SameClaim(Attest(g, s, a, n), g)
         /\ Attest(g, s, a, n).row.state = s
         /\ Attest(g, s, a, n).approvals = g.approvals
  <1>1. g.row \in Row /\ g = [row |-> g.row, bindings |-> g.bindings, approvals |-> g.approvals]
    BY RowTypes DEF Registry
  <1>2. Attest(g, s, a, n).row = [g.row EXCEPT !.state = s, !.approval = a, !.request = n]
    BY <1>1 DEF Attest
  <1>3. Attest(g, s, a, n).row \in Row
    BY <1>1, <1>2 DEF Row
  <1> QED BY <1>1, <1>2, <1>3 DEF Attest, SameClaim, Registry, Row

LEMMA RequestTypes ==
  ASSUME NEW g \in Registry, NEW sig
  PROVE  /\ RequestsFor(g, sig) \in SUBSET (1..Len(g.approvals))
         /\ Len(g.approvals) \in Nat
         /\ RequestsFor(g, sig) # {} => Last(RequestsFor(g, sig)) \in Nat
  <1>1. RequestsFor(g, sig) \in SUBSET (1..Len(g.approvals)) /\ Len(g.approvals) \in Nat
    BY DEF Registry, RequestsFor
  <1>2. RequestsFor(g, sig) # {} => Last(RequestsFor(g, sig)) \in RequestsFor(g, sig)
    BY <1>1, LastIsIn
  <1> QED BY <1>1, <1>2

LEMMA AskTypes ==
  ASSUME NEW g \in Registry, HasRow(g), NEW s \in {"drifted", "unknown"}
  PROVE  SameClaim(Ask(g, s), g) /\ Ask(g, s).row.state = s
  <1> DEFINE sig == g.row.sig
             known == RequestsFor(g, sig)
             more == [g EXCEPT !.approvals = Append(@, [sig |-> sig, status |-> "pending"])]
  <1>1. CASE known = {}
    <2>1. [sig |-> sig, status |-> "pending"] \in Request
      BY RowTypes DEF Request
    <2>2. more \in Registry /\ more.row = g.row /\ more.bindings = g.bindings
      <3> DEFINE a == Append(g.approvals, [sig |-> sig, status |-> "pending"])
      <3>1. a \in Seq(Request)
        BY <2>1 DEF Registry
      <3>2. more = [g EXCEPT !.approvals = a]
        OBVIOUS
      <3> HIDE DEF a
      <3> QED BY <3>1, <3>2, WithApprovals
    <2>3. HasRow(more) /\ Len(g.approvals) + 1 \in Nat
      BY <2>2, RequestTypes DEF HasRow
    <2>4. Ask(g, s) = Attest(more, s, "pending", Len(g.approvals) + 1)
      BY <1>1 DEF Ask
    <2> HIDE DEF more
    <2>5. SameClaim(Ask(g, s), more) /\ Ask(g, s).row.state = s
      BY <2>2, <2>3, <2>4, AttestTypes
    <2> QED BY <2>2, <2>5 DEF SameClaim
  <1>2. CASE known # {}
    <2> DEFINE approval == IF g.approvals[Last(known)].status = "pending" THEN "pending"
                           ELSE "not_required"
    <2>1. Ask(g, s) = Attest(g, s, approval, Last(known))
      BY <1>2 DEF Ask
    <2>2. Last(known) \in Nat /\ approval \in {"not_required", "pending", "rejected"}
      BY <1>2, RequestTypes
    <2> HIDE DEF approval, known
    <2> QED BY <2>1, <2>2, AttestTypes
  <1> QED BY <1>1, <1>2

(* Attestation binds nothing, and verifies only what is bound.             *)
LEMMA EvaluateTypes ==
  ASSUME NEW g \in Registry, HasRow(g)
  PROVE  /\ SameClaim(Evaluate(g), g)
         /\ Evaluate(g).row.state = "verified" => g.row.sig \in Trusted(g)
  <1> DEFINE sig == g.row.sig
             at == BoundAt(g, sig.install)
             bound == g.bindings[First(at)]
  <1>0. g.row.sig \in Signature
    BY RowTypes
  <1>1. CASE at # {} /\ bound.asset # sig.asset
    <2>1. Evaluate(g) = Attest(g, "blocked", "not_required", 0)
      BY <1>1 DEF Evaluate
    <2> QED BY <2>1, AttestTypes
  <1>2. CASE (at = {} \/ bound.asset = sig.asset) /\ Denied(g, sig)
    <2>1. Evaluate(g) = Attest(g, "blocked", "rejected", Last(RequestsFor(g, sig)))
      BY <1>2 DEF Evaluate
    <2>2. Last(RequestsFor(g, sig)) \in Nat
      BY <1>2, RequestTypes DEF Denied
    <2> QED BY <2>1, <2>2, AttestTypes
  <1>3. CASE at = {} /\ ~Denied(g, sig)
    <2>1. Evaluate(g) = Ask(g, "unknown")
      BY <1>3 DEF Evaluate
    <2> QED BY <2>1, AskTypes
  <1>4. CASE at # {} /\ bound.asset = sig.asset /\ bound.spec # sig.spec /\ ~Denied(g, sig)
    <2>1. Evaluate(g) = Ask(g, "drifted")
      BY <1>4 DEF Evaluate
    <2> QED BY <2>1, AskTypes
  <1>5. CASE at # {} /\ bound.asset = sig.asset /\ bound.spec = sig.spec /\ ~Denied(g, sig)
    <2>1. Evaluate(g) = Attest(g, "verified", "not_required", 0)
      BY <1>5 DEF Evaluate
    <2>2. SameClaim(Evaluate(g), g)
      BY <2>1, AttestTypes
    <2>3. First(at) \in at /\ at \in SUBSET (1..Len(g.bindings))
      BY <1>5, FirstIsIn, BoundTypes
    <2>4. bound \in Signature /\ bound.install = sig.install
      BY <2>3, BoundTypes DEF BoundAt
    <2>5. bound = sig
      BY <1>0, <1>5, <2>4 DEF Signature
    <2> QED BY <2>2, <2>3, <2>5 DEF Trusted
  <1> QED BY <1>1, <1>2, <1>3, <1>4, <1>5

-----------------------------------------------------------------------------
(* The invariant                                                           *)

LEMMA GovernanceInit == Init => GovernanceInv
  <1> SUFFICES ASSUME Init PROVE GovernanceInv
    OBVIOUS
  <1>1. <<>> \in Seq(Signature) /\ <<>> \in Seq(Request)
    OBVIOUS
  <1>2. TypeOK
    BY <1>1 DEF Init, TypeOK, Registry
  <1>3. Len(<<>>) = 0 /\ 1..0 = {}
    OBVIOUS
  <1>4. Consented(reg)
    BY <1>3 DEF Init, Consented, Trusted
  <1> QED BY <1>2, <1>4 DEF Init, GovernanceInv, RunsOnlyConsented

(* A registry written by a command of the operator's.                      *)
LEMMA Written ==
  ASSUME NEW g \in Registry, HasRow(g), NEW more \in SUBSET Signature,
         GovernanceInv, Trusted(g) \subseteq granted \cup more,
         reg' = Evaluate(g), granted' = granted \cup more,
         UNCHANGED <<poll, runtime>>, session' \in BOOLEAN, installs' \in Nat
  PROVE  GovernanceInv'
  <1>1. reg' \in Registry /\ reg'.bindings = g.bindings
    BY EvaluateTypes DEF SameClaim
  <1>2. TypeOK'
    BY <1>1 DEF GovernanceInv, TypeOK
  <1>3. Consented(reg)'
    BY <1>1 DEF Consented, Trusted
  <1>4. (poll # Nothing => Consented(poll))'
    BY DEF GovernanceInv, Consented, Trusted
  <1>5. RunsOnlyConsented'
    BY DEF GovernanceInv, RunsOnlyConsented
  <1> QED BY <1>2, <1>3, <1>4, <1>5 DEF GovernanceInv

LEMMA AddKeeps ==
  ASSUME GovernanceInv, NEW a \in Assets, NEW s \in Specs, NEW gated \in BOOLEAN, Add(a, s, gated)
  PROVE  GovernanceInv'
  <1> DEFINE install == IF HasRow(reg) /\ ~gated THEN reg.row.sig.install ELSE installs + 1
             sig == [asset |-> a, install |-> install, spec |-> s]
             row == [sig |-> sig, gated |-> gated, desired |-> "running", state |-> "unknown",
                     approval |-> "not_required", request |-> 0]
             written == [reg EXCEPT !.row = row]
             ensured == IF gated THEN written ELSE EnsureBinding(written, FALSE)
             more == IF gated THEN {} ELSE {ensured.row.sig}
  <1>1. reg \in Registry /\ installs \in Nat /\ Consented(reg)
    BY DEF GovernanceInv, TypeOK
  <1>2. install \in 1..MaxInstalls
    <2>1. install <= MaxInstalls
      BY DEF Add
    <2>2. CASE HasRow(reg) /\ ~gated
      BY <1>1, <2>2, RowTypes DEF Signature
    <2>3. CASE ~(HasRow(reg) /\ ~gated)
      BY <1>1, <2>1, <2>3, BoundsAssumption
    <2> QED BY <2>2, <2>3
  <1>3. row \in Row
    <2> HIDE DEF install
    <2> QED BY <1>2 DEF Row, Signature
  <1>4. written \in Registry /\ HasRow(written) /\ written.bindings = reg.bindings /\ written.row = row
    <2> HIDE DEF row
    <2> QED BY <1>1, <1>3, NoRowAssumption DEF Registry, HasRow
  <1>5. Trusted(written) \subseteq granted
    BY <1>1, <1>4 DEF Consented, Trusted
  <1>6. /\ ensured \in Registry /\ ensured.row \in Row
        /\ Trusted(ensured) \subseteq granted \cup more
    <2> HIDE DEF written, row
    <2>1. CASE gated
      BY <1>3, <1>4, <1>5, <2>1
    <2>2. CASE ~gated
      BY <1>4, <1>5, <2>2, EnsureTypes
    <2> QED BY <2>1, <2>2
  <1>7. HasRow(ensured) /\ more \in SUBSET Signature
    <2> HIDE DEF ensured
    <2> QED BY <1>6, NoRowAssumption DEF HasRow, Row
  <1>8. /\ reg' = Evaluate(ensured) /\ granted' = granted \cup more
        /\ UNCHANGED <<poll, runtime>> /\ session' \in BOOLEAN /\ installs' \in Nat
    <2>1. /\ reg' = Evaluate(ensured) /\ UNCHANGED <<poll, runtime, session>>
          /\ installs' = IF HasRow(reg) /\ ~gated THEN installs ELSE installs + 1
          /\ granted' = IF gated THEN granted ELSE granted \cup {ensured.row.sig}
      BY DEF Add
    <2> HIDE DEF ensured
    <2> QED BY <1>1, <2>1 DEF GovernanceInv, TypeOK
  <1> HIDE DEF ensured, more
  <1> QED BY <1>6, <1>7, <1>8, Written

LEMMA Respecified ==
  ASSUME GovernanceInv, HasRow(reg), NEW s \in Specs
  PROVE  LET g == [reg EXCEPT !.row.sig.spec = s]
         IN  g \in Registry /\ HasRow(g) /\ g.row \in Row /\ Trusted(g) \subseteq granted
  <1> DEFINE g == [reg EXCEPT !.row.sig.spec = s]
             row == [reg.row EXCEPT !.sig.spec = s]
  <1>1. reg \in Registry /\ reg.row \in Row /\ Consented(reg)
    BY RowTypes DEF GovernanceInv, TypeOK
  <1>2. row \in Row
    BY <1>1 DEF Row, Signature
  <1>3. g = [reg EXCEPT !.row = row]
    BY <1>1 DEF Registry
  <1> HIDE DEF row
  <1>4. g \in Registry /\ g.row = row /\ g.bindings = reg.bindings
    BY <1>1, <1>2, <1>3 DEF Registry
  <1> HIDE DEF g
  <1>5. g \in Registry /\ HasRow(g) /\ g.row \in Row /\ Trusted(g) \subseteq granted
    BY <1>1, <1>2, <1>4, NoRowAssumption DEF HasRow, Consented, Trusted
  <1> USE DEF g
  <1> QED BY <1>5

LEMMA UpdateKeeps ==
  ASSUME GovernanceInv, NEW s \in Specs, Update(s)
  PROVE  GovernanceInv'
  <1> DEFINE g == [reg EXCEPT !.row.sig.spec = s]
             ensured == EnsureBinding(g, TRUE)
             more == {ensured.row.sig}
  <1>1. g \in Registry /\ HasRow(g) /\ Trusted(g) \subseteq granted
    BY Respecified DEF Update
  <1>2. /\ reg' = Evaluate(ensured) /\ granted' = granted \cup more
        /\ UNCHANGED <<poll, runtime, session, installs>>
    BY DEF Update
  <1> HIDE DEF g
  <1>3. /\ ensured \in Registry /\ ensured.row \in Row
        /\ Trusted(ensured) \subseteq granted \cup more
    BY <1>1, EnsureTypes
  <1> HIDE DEF ensured
  <1>4. HasRow(ensured) /\ more \in SUBSET Signature
    BY <1>3, NoRowAssumption DEF HasRow, Row
  <1>5. session' \in BOOLEAN /\ installs' \in Nat
    BY <1>2 DEF GovernanceInv, TypeOK
  <1> HIDE DEF more
  <1> QED BY <1>2, <1>3, <1>4, <1>5, Written

LEMMA ConnectKeeps ==
  ASSUME GovernanceInv, NEW s \in Specs, Connect(s)
  PROVE  GovernanceInv'
  <1> DEFINE g == [reg EXCEPT !.row.sig.spec = s]
  <1>1. g \in Registry /\ HasRow(g) /\ Trusted(g) \subseteq granted
    BY Respecified DEF Connect
  <1>2. /\ reg' = Evaluate(g) /\ session' = (session \/ reg'.row.state = "verified")
        /\ UNCHANGED <<poll, runtime, installs, granted>>
    BY DEF Connect
  <1> HIDE DEF g
  <1>3. session' \in BOOLEAN /\ installs' \in Nat
    BY <1>2 DEF GovernanceInv, TypeOK
  <1>4. granted' = granted \cup {} /\ {} \in SUBSET Signature
    BY <1>2
  <1> QED BY <1>1, <1>2, <1>3, <1>4, Written

LEMMA SetDesiredKeeps ==
  ASSUME GovernanceInv, NEW d \in {"running", "stopped"}, SetDesired(d)
  PROVE  GovernanceInv'
  <1> DEFINE row == [reg.row EXCEPT !.desired = d]
  <1>1. reg \in Registry /\ reg.row \in Row /\ Consented(reg)
    BY RowTypes DEF GovernanceInv, TypeOK, SetDesired
  <1>2. row \in Row
    BY <1>1 DEF Row
  <1>3. reg' = [reg EXCEPT !.row = row]
    BY <1>1 DEF SetDesired, Registry
  <1> HIDE DEF row
  <1>4. reg' \in Registry /\ reg'.bindings = reg.bindings
    BY <1>1, <1>2, <1>3 DEF Registry
  <1>5. Consented(reg)' /\ TypeOK'
    BY <1>1, <1>4 DEF Consented, Trusted, TypeOK, SetDesired, GovernanceInv
  <1> QED BY <1>5 DEF GovernanceInv, RunsOnlyConsented, SetDesired, Consented, Trusted

(* A decision, with what it binds, before the rows it is about are         *)
(* attested again.                                                         *)
LEMMA Refreshed ==
  ASSUME NEW g \in Registry, NEW sig \in Signature, NEW more \in SUBSET Signature,
         GovernanceInv, Trusted(g) \subseteq granted \cup more,
         reg' = Refresh(g, sig), granted' = granted \cup more,
         UNCHANGED <<poll, runtime, session, installs>>
  PROVE  GovernanceInv'
  <1>0. session' \in BOOLEAN /\ installs' \in Nat
    BY DEF GovernanceInv, TypeOK
  <1>1. CASE HasRow(g) /\ reg' = Evaluate(g)
    BY <1>0, <1>1, Written
  <1>2. CASE reg' = g
    <2>1. TypeOK'
      BY <1>2 DEF GovernanceInv, TypeOK
    <2>2. Consented(reg)' /\ (poll # Nothing => Consented(poll))' /\ RunsOnlyConsented'
      BY <1>2 DEF GovernanceInv, Consented, Trusted, RunsOnlyConsented
    <2> QED BY <2>1, <2>2 DEF GovernanceInv
  <1> QED BY <1>1, <1>2 DEF Refresh

LEMMA Decided ==
  ASSUME GovernanceInv, NEW i \in 1..Len(reg.approvals), NEW status \in {"approved", "rejected"}
  PROVE  /\ Decide(i, status) \in Registry /\ reg.approvals[i].sig \in Signature
         /\ Trusted(Decide(i, status)) \subseteq granted
  <1> DEFINE a == [reg.approvals EXCEPT ![i].status = status]
  <1>1. reg \in Registry /\ reg.approvals \in Seq(Request) /\ Consented(reg)
    BY DEF GovernanceInv, TypeOK, Registry
  <1>2. reg.approvals[i] \in Request
    BY <1>1
  <1>3. [reg.approvals[i] EXCEPT !.status = status] \in Request
    BY <1>2 DEF Request
  <1>4. a \in Seq(Request)
    BY <1>1, <1>3
  <1>5. Decide(i, status) = [reg EXCEPT !.approvals = a]
    BY DEF Decide
  <1> HIDE DEF a
  <1>6. Decide(i, status) \in Registry /\ Decide(i, status).bindings = reg.bindings
    BY <1>1, <1>4, <1>5, WithApprovals
  <1>7. Trusted(Decide(i, status)) \subseteq granted
    BY <1>1, <1>6 DEF Consented, Trusted
  <1> QED BY <1>2, <1>6, <1>7 DEF Request

LEMMA ApproveKeeps ==
  ASSUME GovernanceInv, NEW i \in 1..Len(reg.approvals), Approve(i)
  PROVE  GovernanceInv'
  <1> DEFINE sig == reg.approvals[i].sig
             g == Upsert(Decide(i, "approved"), sig)
  <1>1. /\ reg' = Refresh(g, sig) /\ granted' = granted \cup {sig}
        /\ UNCHANGED <<poll, runtime, session, installs>>
    BY DEF Approve
  <1>2. Decide(i, "approved") \in Registry /\ sig \in Signature /\ Trusted(Decide(i, "approved")) \subseteq granted
    BY Decided
  <1> HIDE DEF sig
  <1>3. g \in Registry /\ Trusted(g) \subseteq granted \cup {sig}
    BY <1>2, UpsertTypes
  <1>4. {sig} \in SUBSET Signature
    BY <1>2
  <1> HIDE DEF g
  <1> QED BY <1>1, <1>2, <1>3, <1>4, Refreshed

LEMMA DenyKeeps ==
  ASSUME GovernanceInv, NEW i \in 1..Len(reg.approvals), Deny(i)
  PROVE  GovernanceInv'
  <1> DEFINE sig == reg.approvals[i].sig
             g == Decide(i, "rejected")
  <1>1. /\ reg' = Refresh(g, sig) /\ granted' = granted \cup {}
        /\ UNCHANGED <<poll, runtime, session, installs>>
    BY DEF Deny
  <1>2. g \in Registry /\ sig \in Signature /\ Trusted(g) \subseteq granted \cup {}
    BY Decided
  <1>3. {} \in SUBSET Signature
    OBVIOUS
  <1> HIDE DEF sig, g
  <1> QED BY <1>1, <1>2, <1>3, Refreshed

LEMMA TidiedTypes ==
  ASSUME NEW g \in Registry
  PROVE  Tidied(g) \in Registry /\ Tidied(g).bindings = g.bindings
  <1> DEFINE a == [i \in DOMAIN g.approvals |->
                     IF IsStale(g, g.approvals[i]) THEN [g.approvals[i] EXCEPT !.status = "archived"]
                     ELSE g.approvals[i]]
  <1>1. g.approvals \in Seq(Request)
    BY DEF Registry
  <1>2. \A r \in Request : [r EXCEPT !.status = "archived"] \in Request
    BY DEF Request
  <1>3. a \in Seq(Request)
    <2>1. DOMAIN a = 1..Len(g.approvals) /\ Len(g.approvals) \in Nat
      BY <1>1
    <2>2. \A i \in 1..Len(g.approvals) : a[i] \in Request
      BY <1>1, <1>2
    <2>3. a \in [1..Len(g.approvals) -> Request]
      BY <2>1, <2>2
    <2> HIDE DEF a
    <2> QED BY <2>1, <2>3
  <1>4. Tidied(g) = [g EXCEPT !.approvals = a]
    BY DEF Tidied
  <1> HIDE DEF a
  <1> QED BY <1>3, <1>4, WithApprovals

(* A save that only drops the row or tidies the requests.                  *)
LEMMA TidiedKeeps ==
  ASSUME GovernanceInv, NEW g \in Registry, g.bindings = reg.bindings, reg' = Tidied(g),
         UNCHANGED <<poll, runtime, session, installs, granted>>
  PROVE  GovernanceInv'
  <1>1. reg' \in Registry /\ reg'.bindings = reg.bindings
    BY TidiedTypes
  <1>2. TypeOK'
    BY <1>1 DEF GovernanceInv, TypeOK
  <1>3. Consented(reg)' /\ (poll # Nothing => Consented(poll))' /\ RunsOnlyConsented'
    BY <1>1 DEF GovernanceInv, Consented, Trusted, RunsOnlyConsented
  <1> QED BY <1>2, <1>3 DEF GovernanceInv

LEMMA AutoBoundTypes ==
  ASSUME NEW g \in Registry, HasRow(g)
  PROVE  LET b == AutoBound(g)
         IN  /\ b \in Registry /\ b.row \in Row /\ HasRow(b)
             /\ b.row.gated = g.row.gated
             /\ Trusted(b) \subseteq Trusted(g) \cup {b.row.sig}
             /\ b = g \/ (~g.row.gated /\ b.bindings # g.bindings)
  <1>1. CASE AutoBound(g) = g
    BY <1>1, RowTypes
  <1>2. CASE AutoBound(g) # g
    <2> DEFINE sig == g.row.sig
    <2>1. /\ BoundAt(g, sig.install) = {} /\ BoundFor(g, sig.asset) = {} /\ ~g.row.gated
          /\ AutoBound(g) = EnsureBinding(g, FALSE)
      BY <1>2 DEF AutoBound
    <2>2. EnsureBinding(g, FALSE) = Upsert(g, sig)
      BY <2>1 DEF EnsureBinding
    <2>3. Upsert(g, sig) = [g EXCEPT !.bindings = Append(g.bindings, sig)]
      BY <2>1 DEF Upsert
    <2>4. sig \in Signature /\ g.bindings \in Seq(Signature) /\ g.row \in Row
      BY RowTypes DEF Registry
    <2>5. Append(g.bindings, sig) # g.bindings /\ Append(g.bindings, sig) \in Seq(Signature)
      <3>1. Len(Append(g.bindings, sig)) = Len(g.bindings) + 1 /\ Len(g.bindings) \in Nat
        BY <2>4
      <3> QED BY <2>4, <3>1
    <2>6. Upsert(g, sig).bindings # g.bindings
      BY <2>3, <2>5, WithBindings
    <2>7. /\ Upsert(g, sig) \in Registry /\ Upsert(g, sig).row = g.row
          /\ Trusted(Upsert(g, sig)) \subseteq Trusted(g) \cup {sig}
      BY <2>4, UpsertTypes
    <2> QED BY <2>1, <2>2, <2>4, <2>6, <2>7 DEF HasRow
  <1> QED BY <1>1, <1>2

LEMMA PollSavesKeeps ==
  ASSUME GovernanceInv, PollSaves
  PROVE  GovernanceInv'
  <1> DEFINE g == Reconciled(poll)
             b == AutoBound(poll)
  <1>1. /\ poll # Nothing /\ poll' = Nothing /\ UNCHANGED <<session, installs>>
        /\ runtime' = IF HasRow(g) /\ AllowedToRun(g.row) THEN g.row.sig ELSE Nothing
        /\ reg' = Merged(g)
        /\ granted' = IF HasRow(g) /\ ~g.row.gated /\ g.bindings # poll.bindings
                      THEN granted \cup {g.row.sig} ELSE granted
    BY DEF PollSaves
  <1>2. poll \in Registry /\ Consented(poll) /\ reg \in Registry /\ granted \in SUBSET Signature
    BY <1>1 DEF GovernanceInv, TypeOK
  <1>3. CASE ~HasRow(poll)
    <2>1. g = poll
      BY <1>3 DEF Reconciled
    <2>2. runtime' = Nothing /\ granted' = granted /\ reg' = [poll EXCEPT !.row = reg.row]
      BY <1>1, <1>3, <2>1 DEF Merged
    <2>3. reg' \in Registry /\ reg'.bindings = poll.bindings
      BY <1>2, <2>2 DEF Registry
    <2>4. TypeOK'
      BY <1>1, <2>2, <2>3 DEF GovernanceInv, TypeOK
    <2>5. Consented(reg)'
      BY <1>2, <2>2, <2>3 DEF Consented, Trusted
    <2> QED BY <1>1, <2>2, <2>4, <2>5 DEF GovernanceInv, RunsOnlyConsented
  <1>4. CASE HasRow(poll)
    <2>1. /\ b \in Registry /\ HasRow(b) /\ b.row.gated = poll.row.gated
          /\ Trusted(b) \subseteq Trusted(poll) \cup {b.row.sig}
          /\ b = poll \/ (~poll.row.gated /\ b.bindings # poll.bindings)
      BY <1>2, <1>4, AutoBoundTypes
    <2>2. g = Evaluate(b)
      BY <1>4 DEF Reconciled
    <2> HIDE DEF b, g
    <2>3. /\ g \in Registry /\ g.row \in Row /\ HasRow(g) /\ g.bindings = b.bindings
          /\ g.row.sig = b.row.sig /\ g.row.gated = b.row.gated
          /\ g.row.state = "verified" => g.row.sig \in Trusted(g)
      <3>1. SameClaim(g, b) /\ (g.row.state = "verified" => b.row.sig \in Trusted(b))
        BY <2>1, <2>2, EvaluateTypes
      <3> QED BY <3>1, NoRowAssumption DEF SameClaim, HasRow, Trusted
    <2>4. Trusted(g) \subseteq granted' /\ granted' \in SUBSET Signature /\ granted \subseteq granted'
      <3>1. g.row.sig \in Signature
        BY <2>3 DEF Row
      <3>2. granted' \in SUBSET Signature /\ granted \subseteq granted'
        BY <1>1, <1>2, <3>1
      <3>3. CASE b = poll
        BY <1>2, <2>3, <3>2, <3>3 DEF Consented, Trusted
      <3>4. CASE ~poll.row.gated /\ b.bindings # poll.bindings
        <4>1. granted' = granted \cup {g.row.sig}
          BY <1>1, <2>1, <2>3, <3>4
        <4>2. Trusted(g) = Trusted(b)
          BY <2>3 DEF Trusted
        <4>3. Trusted(poll) \subseteq granted
          BY <1>2 DEF Consented
        <4>4. Trusted(b) \subseteq Trusted(poll) \cup {g.row.sig}
          BY <2>1, <2>3
        <4>5. Trusted(g) \subseteq granted \cup {g.row.sig}
          BY <4>2, <4>3, <4>4, Zenon
        <4> QED BY <3>2, <4>1, <4>5, Zenon
      <3> QED BY <2>1, <3>2, <3>3, <3>4
    <2>5. reg' \in Registry /\ reg'.bindings = g.bindings
      <3> DEFINE kept == [g.row EXCEPT !.desired = IF reg.row.desired # poll.row.desired
                                                    THEN reg.row.desired ELSE g.row.desired]
                 row == IF ~HasRow(reg) \/ ~HasRow(poll) THEN reg.row ELSE kept
      <3>1. HasRow(reg) => reg.row \in Row
        BY <1>2, RowTypes
      <3>2. reg.row \in Row => kept \in Row
        BY <2>3 DEF Row
      <3>3. row \in Row \cup {NoRow}
        BY <1>2, <3>1, <3>2 DEF Registry
      <3>4. reg' = [g EXCEPT !.row = row]
        BY <1>1, <2>3 DEF Merged, Registry
      <3> HIDE DEF row
      <3> QED BY <2>3, <3>3, <3>4 DEF Registry
    <2>6. Consented(reg)'
      BY <2>4, <2>5 DEF Consented, Trusted
    <2>7. runtime' \in Signature \cup {Nothing} /\ (runtime' # Nothing => runtime' \in granted')
      <3>1. CASE HasRow(g) /\ AllowedToRun(g.row)
        BY <1>1, <2>3, <2>4, <3>1 DEF AllowedToRun
      <3>2. CASE ~(HasRow(g) /\ AllowedToRun(g.row))
        BY <1>1, <3>2
      <3> QED BY <3>1, <3>2
    <2>8. TypeOK'
      BY <1>1, <2>4, <2>5, <2>7 DEF GovernanceInv, TypeOK
    <2> QED BY <1>1, <2>6, <2>7, <2>8 DEF GovernanceInv, RunsOnlyConsented
  <1> QED BY <1>3, <1>4

LEMMA GovernanceStep == GovernanceInv /\ [Next]_vars => GovernanceInv'
  <1> SUFFICES ASSUME GovernanceInv, [Next]_vars PROVE GovernanceInv'
    OBVIOUS
  <1>1. ASSUME NEW a \in Assets, NEW s \in Specs, NEW gated \in BOOLEAN, Add(a, s, gated)
        PROVE  GovernanceInv'
    BY <1>1, AddKeeps
  <1>2. ASSUME NEW s \in Specs, Update(s) PROVE GovernanceInv'
    BY <1>2, UpdateKeeps
  <1>3. ASSUME NEW s \in Specs, Connect(s) PROVE GovernanceInv'
    BY <1>3, ConnectKeeps
  <1>4. ASSUME NEW d \in {"running", "stopped"}, SetDesired(d) PROVE GovernanceInv'
    BY <1>4, SetDesiredKeeps
  <1>5. ASSUME NEW i \in 1..Len(reg.approvals), Approve(i) PROVE GovernanceInv'
    BY <1>5, ApproveKeeps
  <1>6. ASSUME NEW i \in 1..Len(reg.approvals), Deny(i) PROVE GovernanceInv'
    BY <1>6, DenyKeeps
  <1>7. CASE ArchiveStale
    BY <1>7, TidiedKeeps DEF ArchiveStale, GovernanceInv, TypeOK
  <1>8. CASE Remove
    <2> DEFINE g == [reg EXCEPT !.row = NoRow]
    <2>1. g \in Registry /\ g.bindings = reg.bindings
      BY DEF GovernanceInv, TypeOK, Registry
    <2>2. reg' = Tidied(g) /\ UNCHANGED <<poll, runtime, session, installs, granted>>
      BY <1>8 DEF Remove
    <2> HIDE DEF g
    <2> QED BY <2>1, <2>2, TidiedKeeps
  <1>9. CASE PollLoads
    BY <1>9 DEF PollLoads, GovernanceInv, TypeOK, Consented, Trusted, RunsOnlyConsented
  <1>10. CASE PollSaves
    BY <1>10, PollSavesKeeps
  <1>11. CASE DaemonDies
    BY <1>11 DEF DaemonDies, GovernanceInv, TypeOK, Consented, Trusted, RunsOnlyConsented
  <1>12. CASE UNCHANGED vars
    BY <1>12 DEF vars, GovernanceInv, TypeOK, Consented, Trusted, RunsOnlyConsented
  <1> QED BY <1>1, <1>2, <1>3, <1>4, <1>5, <1>6, <1>7, <1>8, <1>9, <1>10, <1>11, <1>12
          DEF Next, Operator

LEMMA GovernanceInvariant == Spec => []GovernanceInv
  BY GovernanceInit, GovernanceStep, PTL DEF Spec

-----------------------------------------------------------------------------
(* Theorems                                                                *)

(* Type correctness, for any number of requests and installs.              *)
THEOREM GovernanceTypeCorrect == Spec => []TypeOK
  <1>1. GovernanceInv => TypeOK
    BY DEF GovernanceInv
  <1> QED BY <1>1, GovernanceInvariant, PTL

(* The daemon runs an agent only with a signature somebody consented to:   *)
(* evaluate_runtime_attestation verifies what is bound, and bindings come  *)
(* from adding, updating, approving and the first sight of an ungated row  *)
(* only, also when a poll saves over what was decided meanwhile.           *)
THEOREM NothingRunsUnconsented == Spec => []RunsOnlyConsented
  <1>1. GovernanceInv => RunsOnlyConsented
    BY DEF GovernanceInv
  <1> QED BY <1>1, GovernanceInvariant, PTL

=============================================================================
