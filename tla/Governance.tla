----------------------------- MODULE Governance -----------------------------
(***************************************************************************)
(* What an agent may be launched with: bindings, attestation and approval  *)
(* requests of one agent name, from ax_cli/gateway_governance.py and       *)
(* gateway_identity.py, under the commands that change them and the        *)
(* daemon's poll that obeys them (GatewayDaemon._reconcile_registry).      *)
(*                                                                         *)
(* An agent's row claims a launch spec.  A binding says which spec an      *)
(* install of an asset was approved with.  Attestation compares the two    *)
(* and, where they differ, requests an approval; an operator decides it by *)
(* its id, at any time and as often as he likes.  The agent of a session   *)
(* changes its own spec by connecting from another place.                  *)
(***************************************************************************)
EXTENDS Naturals, Sequences

CONSTANTS
    Assets,         \* agent ids the platform may give the name
    Specs,          \* launch specs: path, command, runtime type, model
    NoRow,
    Nothing,        \* nothing runs; no poll is in progress
    SerialPolls,    \* do operators wait for a poll in progress?
    MaxInstalls,    \* bound: install ids
    MaxRequests     \* bound: approval requests

ASSUME BoundsAssumption ==
    SerialPolls \in BOOLEAN /\ MaxInstalls \in Nat /\ MaxRequests \in Nat

(* What _binding_candidate_for_entry hashes: the trust signature.          *)
Signature == [asset : Assets, install : 1..MaxInstalls, spec : Specs]

ASSUME NothingAssumption == Nothing \notin Signature

Request == [sig : Signature, status : {"pending", "approved", "rejected", "archived"}]

(* gated: the template asks for an operator's approval (pass-through).     *)
(* request: the index of the row's approval_id, 0 without.                 *)
Row == [sig : Signature, gated : BOOLEAN, desired : {"running", "stopped"},
        state : {"verified", "drifted", "unknown", "blocked"},
        approval : {"not_required", "pending", "rejected"}, request : Nat]

ASSUME NoRowAssumption == NoRow \notin Row

VARIABLES
    reg,            \* registry.json: row, bindings, approvals
    poll,           \* the copy a poll in progress works on
    runtime,        \* the signature the daemon runs the agent with
    session,        \* has a session token been issued?
    installs,       \* install ids minted
    granted         \* history: the signatures somebody consented to

vars == <<reg, poll, runtime, session, installs, granted>>

HasRow(g) == g.row # NoRow

Init ==
    /\ reg = [row |-> NoRow, bindings |-> <<>>, approvals |-> <<>>]
    /\ poll = Nothing
    /\ runtime = Nothing
    /\ session = FALSE
    /\ installs = 0
    /\ granted = {}

-----------------------------------------------------------------------------
(* Bindings                                                                *)

First(S) == CHOOSE i \in S : \A j \in S : i <= j
Last(S) == CHOOSE i \in S : \A j \in S : i >= j

BoundAt(g, install) == {i \in 1..Len(g.bindings) : g.bindings[i].install = install}
BoundFor(g, asset) == {i \in 1..Len(g.bindings) : g.bindings[i].asset = asset}

(* upsert_binding: one binding per install.                                *)
Upsert(g, sig) ==
    LET at == BoundAt(g, sig.install)
    IN  [g EXCEPT !.bindings = IF at = {} THEN Append(@, sig) ELSE [@ EXCEPT ![First(at)] = sig]]

(* ensure_local_asset_binding: the row takes over the install of an        *)
(* existing binding; its spec is bound if there was none, or on an update. *)
EnsureBinding(g, replace) ==
    LET sig == g.row.sig
        existing == IF BoundAt(g, sig.install) # {} THEN BoundAt(g, sig.install)
                    ELSE BoundFor(g, sig.asset)
        adopted == IF existing = {} THEN g
                   ELSE [g EXCEPT !.row.sig.install = g.bindings[First(existing)].install]
    IN  IF existing = {} \/ replace THEN Upsert(adopted, adopted.row.sig) ELSE adopted

-----------------------------------------------------------------------------
(* Attestation: evaluate_runtime_attestation                               *)

(* _find_approval_for_signature: the latest request that is not archived.  *)
RequestsFor(g, sig) ==
    {i \in 1..Len(g.approvals) : g.approvals[i].sig = sig /\ g.approvals[i].status # "archived"}

Denied(g, sig) ==
    RequestsFor(g, sig) # {} /\ g.approvals[Last(RequestsFor(g, sig))].status = "rejected"

Attest(g, state, approval, request) ==
    [g EXCEPT !.row.state = state, !.row.approval = approval, !.row.request = request]

(* Not trusted: under the latest request for the signature, whatever was   *)
(* decided about it, or a new one.                                         *)
Ask(g, state) ==
    LET sig == g.row.sig
        known == RequestsFor(g, sig)
    IN  IF known = {}
        THEN Attest([g EXCEPT !.approvals = Append(@, [sig |-> sig, status |-> "pending"])],
                    state, "pending", Len(g.approvals) + 1)
        ELSE Attest(g, state,
                    IF g.approvals[Last(known)].status = "pending" THEN "pending" ELSE "not_required",
                    Last(known))

(* MUTATION of Evaluate: a denial is looked for only when the spec drifted.*)
EvaluateBindingFirst(g) ==
    LET sig == g.row.sig
        at == BoundAt(g, sig.install)
    IN  CASE at # {} /\ g.bindings[First(at)] = sig -> Attest(g, "verified", "not_required", 0)
          [] at # {} /\ g.bindings[First(at)] # sig -> Ask(g, "drifted")
          [] OTHER -> Ask(g, "unknown")

(* MUTATION of Evaluate: what was denied once stays blocked.               *)
EvaluateSticky(g) ==
    LET sig == g.row.sig
        at == BoundAt(g, sig.install)
        bound == g.bindings[First(at)]
    IN  CASE g.row.approval = "rejected" \/ Denied(g, sig) ->
                Attest(g, "blocked", "rejected", g.row.request)
          [] g.row.approval # "rejected" /\ ~Denied(g, sig) /\ at = {} -> Ask(g, "unknown")
          [] g.row.approval # "rejected" /\ ~Denied(g, sig) /\ at # {} /\ bound # sig ->
                Ask(g, "drifted")
          [] OTHER -> Attest(g, "verified", "not_required", 0)

Evaluate(g) ==
    LET sig == g.row.sig
        at == BoundAt(g, sig.install)
        bound == g.bindings[First(at)]
    IN  CASE at # {} /\ bound.asset # sig.asset -> Attest(g, "blocked", "not_required", 0)
          [] (at = {} \/ bound.asset = sig.asset) /\ Denied(g, sig) ->
                Attest(g, "blocked", "rejected", Last(RequestsFor(g, sig)))
          [] at = {} /\ ~Denied(g, sig) -> Ask(g, "unknown")
          [] at # {} /\ bound.asset = sig.asset /\ bound.spec # sig.spec /\ ~Denied(g, sig) ->
                Ask(g, "drifted")
          [] OTHER -> Attest(g, "verified", "not_required", 0)

MayAsk(g) == Len(g.approvals) < MaxRequests

-----------------------------------------------------------------------------
(* Commands.  Each loads the registry, edits it and saves it; how such     *)
(* saves overlap is the subject of GatewayRegistry.                        *)

OperatorMayAct == SerialPolls => poll = Nothing

(* _register_managed_agent: the row of a name that is there already keeps  *)
(* its install, unless the template asks for approval.                     *)
Add(asset, spec, gated) ==
    LET install == IF HasRow(reg) /\ ~gated THEN reg.row.sig.install ELSE installs + 1
        sig == [asset |-> asset, install |-> install, spec |-> spec]
        written == [reg EXCEPT !.row = [sig |-> sig, gated |-> gated, desired |-> "running",
                                        state |-> "unknown", approval |-> "not_required",
                                        request |-> 0]]
        ensured == IF gated THEN written ELSE EnsureBinding(written, FALSE)
    IN  /\ OperatorMayAct
        /\ install <= MaxInstalls /\ MayAsk(reg)
        /\ installs' = IF HasRow(reg) /\ ~gated THEN installs ELSE installs + 1
        /\ reg' = Evaluate(ensured)
        /\ granted' = IF gated THEN granted ELSE granted \cup {ensured.row.sig}
        /\ UNCHANGED <<poll, runtime, session>>

(* _update_managed_agent: what the operator sets is approved with it.      *)
Update(spec) ==
    LET ensured == EnsureBinding([reg EXCEPT !.row.sig.spec = spec], TRUE)
    IN  /\ OperatorMayAct
        /\ HasRow(reg) /\ MayAsk(reg)
        /\ reg' = Evaluate(ensured)
        /\ granted' = granted \cup {ensured.row.sig}
        /\ UNCHANGED <<poll, runtime, session, installs>>

(* MUTATION of Connect: connecting from a place approves the place.        *)
ConnectTrusting(spec) ==
    /\ OperatorMayAct
    /\ HasRow(reg) /\ MayAsk(reg)
    /\ reg' = Evaluate(EnsureBinding([reg EXCEPT !.row.sig.spec = spec], TRUE))
    /\ session' = (session \/ reg'.row.state = "verified")
    /\ UNCHANGED <<poll, runtime, installs, granted>>

(* _connect_local_pass_through_agent, for a name that has a row: the agent *)
(* connects from a place of its choice, and gets a session if it is        *)
(* approved there.                                                         *)
Connect(spec) ==
    /\ OperatorMayAct
    /\ HasRow(reg) /\ MayAsk(reg)
    /\ reg' = Evaluate([reg EXCEPT !.row.sig.spec = spec])
    /\ session' = (session \/ reg'.row.state = "verified")
    /\ UNCHANGED <<poll, runtime, installs, granted>>

SetDesired(desired) ==
    /\ OperatorMayAct
    /\ HasRow(reg)
    /\ reg' = [reg EXCEPT !.row.desired = desired]
    /\ UNCHANGED <<poll, runtime, session, installs, granted>>

(* _refresh_attestation_for_matching_entries                               *)
Refresh(g, sig) ==
    IF HasRow(g) /\ g.row.sig.asset = sig.asset /\ g.row.sig.install = sig.install
    THEN Evaluate(g) ELSE g

Decide(i, status) == [reg EXCEPT !.approvals[i].status = status]

(* The request is found by its id, whatever was decided about it before.   *)
Approve(i) ==
    LET sig == reg.approvals[i].sig
    IN  /\ OperatorMayAct
        /\ MayAsk(reg)
        /\ reg' = Refresh(Upsert(Decide(i, "approved"), sig), sig)
        /\ granted' = granted \cup {sig}
        /\ UNCHANGED <<poll, runtime, session, installs>>

Deny(i) ==
    /\ OperatorMayAct
    /\ MayAsk(reg)
    /\ reg' = Refresh(Decide(i, "rejected"), reg.approvals[i].sig)
    /\ UNCHANGED <<poll, runtime, session, installs, granted>>

(* _approval_is_stale: no row is left that the request is about, or its    *)
(* signature is bound by now.                                              *)
IsStale(g, request) ==
    LET at == BoundAt(g, request.sig.install)
    IN  /\ request.status = "pending"
        /\ \/ ~HasRow(g)
           \/ g.row.sig # request.sig
           \/ at # {} /\ g.bindings[First(at)] = request.sig

(* archive_stale_gateway_approvals                                         *)
Tidied(g) ==
    [g EXCEPT !.approvals =
        [i \in DOMAIN @ |-> IF IsStale(g, @[i]) THEN [@[i] EXCEPT !.status = "archived"] ELSE @[i]]]

ArchiveStale ==
    /\ OperatorMayAct
    /\ reg' = Tidied(reg)
    /\ UNCHANGED <<poll, runtime, session, installs, granted>>

(* _remove_managed_agent: the bindings stay.                               *)
Remove ==
    /\ OperatorMayAct
    /\ HasRow(reg)
    /\ reg' = Tidied([reg EXCEPT !.row = NoRow])
    /\ UNCHANGED <<poll, runtime, session, installs, granted>>

-----------------------------------------------------------------------------
(* The daemon's poll                                                       *)

PollLoads ==
    /\ poll = Nothing
    /\ poll' = reg
    /\ UNCHANGED <<reg, runtime, session, installs, granted>>

(* A row without any binding is trusted on first sight, unless its         *)
(* template asks for approval.                                             *)
AutoBound(g) ==
    IF /\ BoundAt(g, g.row.sig.install) = {}
       /\ BoundFor(g, g.row.sig.asset) = {}
       /\ ~g.row.gated
    THEN EnsureBinding(g, FALSE) ELSE g

(* MUTATION of Reconciled: a row that waits for a decision is not attested.*)
ReconciledUnlessPending(g) ==
    IF HasRow(g) /\ g.row.approval # "pending" THEN Evaluate(AutoBound(g)) ELSE g

Reconciled(g) == IF HasRow(g) THEN Evaluate(AutoBound(g)) ELSE g

(* allowed_to_run of _reconcile_runtime                                    *)
AllowedToRun(row) ==
    /\ row.desired = "running"
    /\ row.state = "verified"
    /\ row.approval \notin {"pending", "rejected"}

(* The save merges rows by name and the desired state by field; bindings   *)
(* and approvals are the poll's, whatever was decided meanwhile.           *)
Merged(g) ==
    [g EXCEPT !.row =
        IF ~HasRow(reg) \/ ~HasRow(poll) THEN reg.row
        ELSE [g.row EXCEPT !.desired =
                IF reg.row.desired # poll.row.desired THEN reg.row.desired ELSE g.row.desired]]

PollSaves ==
    /\ poll # Nothing
    /\ poll' = Nothing
    /\ UNCHANGED <<session, installs>>
    /\ \E g \in {Reconciled(poll)} :
          /\ runtime' = IF HasRow(g) /\ AllowedToRun(g.row) THEN g.row.sig ELSE Nothing
          /\ reg' = Merged(g)
          /\ granted' = IF HasRow(g) /\ ~g.row.gated /\ g.bindings # poll.bindings
                        THEN granted \cup {g.row.sig} ELSE granted

(* The daemon dies, with its runtimes and what it had not saved.           *)
DaemonDies ==
    /\ poll' = Nothing
    /\ runtime' = Nothing
    /\ UNCHANGED <<reg, session, installs, granted>>

Operator ==
    \/ \E a \in Assets, s \in Specs, gated \in BOOLEAN : Add(a, s, gated)
    \/ \E s \in Specs : Update(s)
    \/ \E s \in Specs : Connect(s)
    \/ \E desired \in {"running", "stopped"} : SetDesired(desired)
    \/ \E i \in 1..Len(reg.approvals) : Approve(i)
    \/ \E i \in 1..Len(reg.approvals) : Deny(i)
    \/ ArchiveStale
    \/ Remove

Next ==
    \/ Operator
    \/ PollLoads
    \/ PollSaves
    \/ DaemonDies

Spec == Init /\ [][Next]_vars

(* The daemon polls every second, and does not die in every poll.          *)
Fairness == WF_vars(PollLoads) /\ SF_vars(PollSaves)

FairSpec == Spec /\ Fairness
-----------------------------------------------------------------------------
(* Properties                                                              *)

Registry == [row : Row \cup {NoRow}, bindings : Seq(Signature), approvals : Seq(Request)]

(* Types of the registry, of the poll's copy and of what runs.             *)
TypeOK ==
    /\ reg \in Registry
    /\ poll \in Registry \cup {Nothing}
    /\ runtime \in Signature \cup {Nothing}
    /\ session \in BOOLEAN
    /\ installs \in Nat
    /\ granted \in SUBSET Signature

(* Nothing runs that nobody consented to: the signature the daemon runs an *)
(* agent with was added ungated, set by an operator, approved, or trusted  *)
(* on first sight, whatever the agent's sessions connected from and        *)
(* however decisions and polls overlap.                                    *)
RunsOnlyConsented == runtime # Nothing => runtime \in granted

(* What holds a row back as unknown is a request an operator can decide:   *)
(* neither the tidying of requests nor a poll that saves over a new one    *)
(* leaves it waiting for nothing.                                          *)
CanBeReleased ==
    \E i \in RequestsFor(reg, reg.row.sig) : reg.approvals[i].status = "pending"

UnknownIsAsked ==
    (HasRow(reg) /\ reg.row.state = "unknown")
        ~> (~HasRow(reg) \/ reg.row.state # "unknown" \/ CanBeReleased)

(* A denial takes hold of a bound and running agent too: what its latest   *)
(* request denies it stops running, or the denial is revoked or lost.      *)
DenialStops ==
    (HasRow(reg) /\ Denied(reg, reg.row.sig))
        ~> (~HasRow(reg) \/ ~Denied(reg, reg.row.sig) \/ runtime # reg.row.sig)

Launchable(g) ==
    /\ HasRow(g) /\ g.row.desired = "running" /\ ~Denied(g, g.row.sig)
    /\ g.row.sig \in {g.bindings[i] : i \in 1..Len(g.bindings)}

(* What an operator bound and wants to run is run, unless he changes his   *)
(* mind.                                                                   *)
ApprovedRuns == Launchable(reg) ~> (~Launchable(reg) \/ runtime = reg.row.sig)

(* REFUTED.  "Any change to the trust signature after approval creates a   *)
(* new pending approval or blocks the session until reviewed" (the         *)
(* mailbox's specification): a row that drifted has a request to review,   *)
(* or its session may not call (_approval_state of the session commands).  *)
DriftIsReviewed ==
    HasRow(reg) /\ session /\ reg.row.state = "drifted" => reg.row.approval # "not_required"
=============================================================================
