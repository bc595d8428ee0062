---------------------------- MODULE SourceWitness ---------------------------
(***************************************************************************)
(* The prover's stream with its two C6 witness sidecars, one per kind of   *)
(* correlation.  A sidecar collects every row that is drawn with the       *)
(* correction that hides a source value in it and with its tag, is checked *)
(* against the schedule audit when it is closed, and is then what the      *)
(* response commits to.  A draw that would escape a closed sidecar panics, *)
(* until the post-source phase is entered.                                 *)
(*                                                                         *)
(* The verifier has no sidecars: its behaviours are the ones in which none *)
(* is enabled.                                                             *)
(***************************************************************************)
EXTENDS CorrelationStream

VARIABLES
    sidecar,    \* for each kind, the recorder: its phase and its draws
    sealed,     \* for each kind, the audit that closing it returned
    post        \* the post-source phase

witnessVars == <<sidecar, sealed, post>>
vars == <<streamVars, witnessVars>>

NoAudit == [returned |-> FALSE, draws |-> <<>>]

NewSidecar == [phase |-> "off", draws |-> <<>>, masks |-> 0]

Init ==
    /\ StreamInit
    /\ sidecar = [k \in Kinds |-> NewSidecar]
    /\ sealed = [k \in Kinds |-> NoAudit]
    /\ post = FALSE

-----------------------------------------------------------------------------
(* Enabling.                                                               *)

EnableSidecars(ks) ==
    /\ ~batch.active
    /\ counters = NoCounters
    /\ \A k \in ks : sidecar[k].phase = "off"
    /\ audit' = [audit EXCEPT !.on = TRUE]
    /\ sidecar' = [k \in Kinds |->
                     IF k \in ks THEN [NewSidecar EXCEPT !.phase = "open"] ELSE sidecar[k]]
    /\ UNCHANGED <<consumed, reserved, cursor, alloc, counters, batch, sealed, post>>

\* The subfield sidecar alone, or both.
EnableSubfieldCollection == EnableSidecars({"sub"})
EnableSourceCollection == EnableSidecars(Kinds) /\ ~post

-----------------------------------------------------------------------------
(* Draws.                                                                  *)

\* A variant: a closed sidecar does not stop draws.
DrawAllowedAlways(k) == TRUE

DrawAllowed(k) == sidecar[k].phase # "closed" \/ post

\* The recorder of kind k after a draw of n rows for each of rows domains.
Collected(k, role, base, rows, n) ==
    IF sidecar[k].phase # "open" THEN sidecar
    ELSE [sidecar EXCEPT
            ![k].draws = @ \o [i \in 1..rows |->
                [dom |-> base + i - 1, off |-> sidecar[k].masks + (i - 1) * n, n |-> n,
                 role |-> role, corrected |-> role = "product", tagged |-> k = "full"]],
            ![k].masks = @ + rows * n]

DrawSubs(base, rows, cols) ==
    /\ DrawAllowed("sub")
    /\ ReserveSubRows(base, rows, cols)
    /\ sidecar' = Collected("sub", "direct", base, rows, cols)
    /\ UNCHANGED <<sealed, post>>

\* The recorder refuses an empty draw, and panics, after the draw was made.
CollectedFull(dom, n, role) ==
    IF Fits(n) /\ n > 0 THEN Collected("full", role, dom, 1, n) ELSE sidecar

DrawFulls(dom, n, role) ==
    /\ DrawAllowed("full")
    /\ DrawFull(dom, n, role)
    /\ sidecar' = CollectedFull(dom, n, role)
    /\ UNCHANGED <<sealed, post>>

DrawPlace(p) ==
    /\ DrawAllowed("full")
    /\ BatchDraw(p)
    /\ sidecar' = CollectedFull(PlaceDomain(batch.ranges, p), batch.ranges[p[1]].count, "direct")
    /\ UNCHANGED <<sealed, post>>

-----------------------------------------------------------------------------
(* What the sidecars collect besides the rows.                             *)

\* draw_sub_tags, for a domain that was drawn; draw_subs does it at once.
DrawSubTags(dom) ==
    /\ ~batch.active
    /\ consumed["sub"][dom] # Absent
    /\ sidecar["sub"].phase = "open"
    /\ \E i \in 1..Len(sidecar["sub"].draws) :
          /\ sidecar["sub"].draws[i].dom = dom
          /\ sidecar' = [sidecar EXCEPT !["sub"].draws[i].tagged = TRUE]
    /\ UNCHANGED <<streamVars, sealed, post>>

\* A batch gives access to the domains of its ranges only.
Reachable(k, dom) ==
    batch.active =>
        k = "full" /\ \E p \in Places(batch.ranges) : PlaceDomain(batch.ranges, p) = dom

\* record_c6_subfield_corrections, record_c6_fullfield_corrections and
\* record_c6_fullfield_plaintexts.
RecordCorrections(k, dom) ==
    /\ Reachable(k, dom)
    /\ ~post
    /\ sidecar[k].phase = "open"
    /\ \E i \in 1..Len(sidecar[k].draws) :
          /\ sidecar[k].draws[i].dom = dom
          /\ sidecar[k].draws[i].role = "direct"
          /\ ~sidecar[k].draws[i].corrected
          /\ sidecar' = [sidecar EXCEPT ![k].draws[i].corrected = TRUE]
    /\ UNCHANGED <<streamVars, sealed, post>>

-----------------------------------------------------------------------------
(* Closing.                                                                *)

\* is_canonical: no draw of the audit is empty, and offsets are contiguous.
Canonical ==
    \A k \in Kinds :
        LET ds == audit.draws[k]
        IN  /\ \A i \in 1..Len(ds) :
                  /\ ds[i].n # 0
                  /\ ds[i].off = IF i = 1 THEN 0 ELSE ds[i - 1].off + ds[i - 1].n
            /\ audit.next[k] = IF ds = <<>> THEN 0 ELSE ds[Len(ds)].off + ds[Len(ds)].n

\* validate_against: the sidecar's draws are the audit's draws of its kind.
MatchesAudit(k, draws) ==
    LET ds == audit.draws[k]
    IN  /\ Canonical
        /\ Len(draws) = Len(ds)
        /\ \A i \in 1..Len(ds) :
              /\ draws[i].dom = ds[i].dom /\ draws[i].off = ds[i].off
              /\ draws[i].n = ds[i].n /\ draws[i].role = ds[i].role
        /\ sidecar[k].masks = audit.next[k]

Complete(draws) == \A i \in 1..Len(draws) : draws[i].corrected /\ draws[i].tagged

\* The subfield sidecar expands the tags that nobody has asked for yet.
Tagged(draws) == [i \in 1..Len(draws) |-> [draws[i] EXCEPT !.tagged = TRUE]]

\* finish_c6_subfield_witness_collection, finish_c6_fullfield_witness_collection:
\* the sidecar is closed whether or not the audit is returned.
FinishCollection(k) ==
    /\ ~batch.active
    /\ sidecar[k].phase = "open"
    /\ LET draws == IF k = "sub" THEN Tagged(sidecar[k].draws) ELSE sidecar[k].draws
       IN  sealed' = IF Complete(draws) /\ MatchesAudit(k, draws)
                     THEN [sealed EXCEPT ![k] = [returned |-> TRUE, draws |-> draws]]
                     ELSE sealed
    /\ sidecar' = [sidecar EXCEPT ![k] = [NewSidecar EXCEPT !.phase = "closed"]]
    /\ UNCHANGED <<streamVars, post>>

EnterPostSourcePhase ==
    /\ ~batch.active
    /\ \A k \in Kinds : sidecar[k].phase = "closed"
    /\ ~post
    /\ post' = TRUE
    /\ UNCHANGED <<streamVars, sidecar, sealed>>

-----------------------------------------------------------------------------

FullRanges == [base : Domains, rows : 1..MaxRows, count : Counts]

Next ==
    \/ EnableScheduleAudit /\ UNCHANGED witnessVars
    \/ EnableSubfieldCollection
    \/ EnableSourceCollection
    \/ \E base \in Domains, rows \in 1..MaxRows, cols \in Counts : DrawSubs(base, rows, cols)
    \/ \E dom \in Domains, n \in Counts, role \in {"direct", "product"} :
          DrawFulls(dom, n, role)
    \/ \E r \in FullRanges : TryReserveRanges(<<r>>) /\ UNCHANGED witnessVars
    \/ \E r, q \in FullRanges : TryReserveRanges(<<r, q>>) /\ UNCHANGED witnessVars
    \/ \E p \in Places(batch.ranges) : DrawPlace(p)
    \/ EndBatch /\ UNCHANGED witnessVars
    \/ \E dom \in Domains : DrawSubTags(dom)
    \/ \E k \in Kinds, dom \in Domains : RecordCorrections(k, dom)
    \/ \E k \in Kinds : FinishCollection(k)
    \/ EnterPostSourcePhase

Spec == Init /\ [][Next]_vars

-----------------------------------------------------------------------------
(* Properties.                                                             *)

\* A sealed sidecar holds the pool's rows, all of them, each under the domain
\* that drew it, with its correction and its tag; nothing that a draw did to
\* the ledger, the audit, the pool and the recorder, or failed to do half-way,
\* puts them out of step.  No row is drawn outside a sealed sidecar before the
\* post-source phase.
SidecarAccounts ==
    \A k \in Kinds : sealed[k].returned =>
        LET ds == sealed[k].draws
            as == alloc[k]
        IN  /\ Len(ds) <= Len(as)
            /\ ~post => Len(ds) = Len(as)
            /\ \A i \in 1..Len(ds) :
                  /\ ds[i].dom = as[i].dom /\ ds[i].off = as[i].off /\ ds[i].n = as[i].n
                  /\ ds[i].corrected /\ ds[i].tagged

=============================================================================
