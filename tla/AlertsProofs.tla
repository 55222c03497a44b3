----------------------------- MODULE AlertsProofs -----------------------------
(***************************************************************************)
(* Proofs about alert rules, for every number of rules, items, projects,   *)
(* pending firings, faults and edits.                                      *)
(*                                                                         *)
(* The evaluator works from what it has read.  WorkSound says how the      *)
(* items up to the clock it read stand while it moves on: accounted for,   *)
(* or among those it is about to count, deliver or record.  Excess says    *)
(* which rules could be delivered within their cooldown: those whose last  *)
(* delivery a fault kept from being marked.                                *)
(***************************************************************************)
EXTENDS Alerts, FiniteSetTheorems, TLAPS

States == {"absent", "enabled", "disabled", "deleted"}

RuleRow == [state : States, trigger : validTriggers, projects : SUBSET Project,
            global : BOOLEAN, since : SUBSET Item, marked : BOOLEAN]

DueRec == [id : Rule, trigger : validTriggers, projects : SUBSET Project, since : SUBSET Item]

FiringRow == [used : BOOLEAN, rule : Rule \cup {None}, attempt : Nat, due : BOOLEAN, sent : Nat]

AtRule == {"count", "deliver", "log", "mark"}

TypeOK ==
  /\ item \in [Item -> {"none", "open", "visible", "ripe", "gone"}]
  /\ rule \in [Rule -> RuleRow] /\ fresh \in [Rule -> BOOLEAN]
  /\ firing \in [Slot -> FiringRow]
  /\ pc \in AtRule \cup {"idle", "rules", "list", "retry", "record"}
  /\ due \subseteq DueRec /\ (pc \in AtRule => cur \in DueRec)
  /\ (pc \notin {"rules"} \cup AtRule => due = {})
  /\ asOf \subseteq Item /\ found \subseteq Item /\ sentOk \in BOOLEAN
  /\ (pc \notin {"deliver", "log"} => found = {})
  /\ faults \in Nat /\ early \in Nat
  /\ chosen \in [Rule -> SUBSET Project]
  /\ told \in [Rule -> SUBSET Item] /\ excused \in [Rule -> SUBSET Item]
  /\ late \in [Rule -> SUBSET Item]

\* An item that the rule needs to tell nobody of any more.
Covered(r, i) == item[i] = "gone" \/ i \in told[r] \cup excused[r] \cup late[r]

AllCovered(r, items) == rule[r].state # "deleted" => \A i \in items : Covered(r, i)

\* A rule that is not there yet has no past; one that is, and still has the
\* scope it was given, looks only at projects chosen for it.
RowSound(r) ==
  /\ rule[r].state = "absent" => ~fresh[r] /\ told[r] = {}
  /\ rule[r].state \in {"absent", "deleted"} => rule[r].since = {}
  /\ rule[r].global => rule[r].projects = {}
  /\ rule[r].state \in {"enabled", "disabled"} /\ ruleHasScope(r) =>
       Scope(rule[r].projects) \subseteq chosen[r]

\* What was read of a rule.
ReadSound(d) ==
  /\ rule[d.id].state # "absent"
  /\ Scope(d.projects) \subseteq chosen[d.id]
  /\ AllCovered(d.id, d.since)

\* A rule that is about to be evaluated is not in a cooldown that was marked,
\* and each rule is evaluated once in a pass.
DueSound ==
  /\ \A d \in due : ReadSound(d) /\ ~(rule[d.id].marked /\ fresh[d.id])
  /\ \A d, e \in due : d.id = e.id => d = e
  /\ pc \in AtRule => \A d \in due : d.id # cur.id

\* Where the items up to the clock are, step by step.
Place(i) ==
  \/ Covered(cur.id, i)
  \/ pc = "count" /\ i \in Countable \cap Wanted(cur.trigger, cur.projects)
  \/ pc = "deliver" /\ i \in found
  \/ pc = "log" /\ ~sentOk /\ i \in found

WorkSound ==
  pc \in AtRule =>
    /\ ReadSound(cur)
    /\ pc \in {"count", "deliver"} => ~(rule[cur.id].marked /\ fresh[cur.id])
    /\ rule[cur.id].state # "deleted" => \A i \in asOf : Place(i)
    /\ \A i \in found : Of[i] \in chosen[cur.id]

AlertsInv ==
  /\ TypeOK /\ DueSound /\ WorkSound
  /\ \A r \in Rule : RowSound(r)
  /\ NothingEscapes /\ ScopeRespected /\ RetriesBounded

\* The rules that may be delivered early, one fault each.
Read(r) == (\E d \in due : d.id = r) \/ (pc \in {"count", "deliver"} /\ cur.id = r)

Excess ==
  {r \in Rule : /\ fresh[r] /\ ~rule[r].marked
                /\ ~(pc \in {"log", "mark"} /\ cur.id = r)
                /\ rule[r].state # "deleted" \/ Read(r)}

FaultsPayForEarly == early + Cardinality(Excess) <= faults

-----------------------------------------------------------------------------
(* Helpers. *)

\* A trigger that looks at a condition looks for no items (validTriggers).
LEMMA ConditionsSeekNothing ==
  ASSUME NEW t \in Conditions, NEW ps
  PROVE  Wanted(t, ps) = {}
<1>1. Sought[t] = {}
  BY DEF Sought, SoughtOfIssues, SoughtOfMonitors, Conditions, validTriggers
<1> QED
  BY <1>1 DEF Wanted

\* An item that a rule looks for is in one of the rule's projects.
LEMMA WantedInScope ==
  ASSUME NEW t, NEW ps, NEW i \in Wanted(t, ps)
  PROVE  i \in Item /\ Of[i] \in Scope(ps)
BY DEF Wanted

\* Where no firing changes, the bound on copies is kept: a delivery that is
\* not recorded any more was lost to a fault.
LEMMA FiringsKept ==
  ASSUME TypeOK, RetriesBounded, firing' = firing, faults' \in Nat, faults' >= faults,
         pc = "record" /\ pc' # "record" => faults' >= faults + 1,
         pc' = "record" => pc = "record" /\ slot' = slot
  PROVE  RetriesBounded'
<1> SUFFICES ASSUME NEW f \in Slot, firing[f].used
             PROVE  firing[f].sent <= firing[f].attempt + faults' +
                                        (IF pc' = "record" /\ slot' = f THEN 1 ELSE 0)
  BY DEF RetriesBounded
<1>1. firing[f] \in FiringRow /\ faults \in Nat
  BY DEF TypeOK
<1>2. firing[f].sent \in Nat /\ firing[f].attempt \in Nat
  BY <1>1 DEF FiringRow
<1>3. firing[f].sent <= firing[f].attempt + faults + (IF pc = "record" /\ slot = f THEN 1 ELSE 0)
  BY DEF RetriesBounded
<1> QED
  BY <1>1, <1>2, <1>3

\* One firing is replaced by one that satisfies the bound, or is not pending.
LEMMA FiringReplaced ==
  ASSUME TypeOK, RetriesBounded, NEW f, NEW row \in FiringRow,
         firing' = [firing EXCEPT ![f] = row], faults' \in Nat, faults' >= faults,
         pc = "record" /\ pc' # "record" => faults' >= faults + 1 \/ slot = f,
         pc' = "record" /\ pc # "record" => slot' = f,
         pc' = "record" /\ pc = "record" => slot' = slot,
         row.used => row.sent <= row.attempt + faults' +
                                   (IF pc' = "record" /\ slot' = f THEN 1 ELSE 0)
  PROVE  firing' \in [Slot -> FiringRow] /\ RetriesBounded'
<1>1. /\ firing' \in [Slot -> FiringRow]
      /\ \A g \in Slot : firing'[g] = IF g = f THEN row ELSE firing[g]
  BY DEF TypeOK
<1>2. ASSUME NEW g \in Slot, firing'[g].used
      PROVE  firing'[g].sent <= firing'[g].attempt + faults' +
                                  (IF pc' = "record" /\ slot' = g THEN 1 ELSE 0)
  <2>1. CASE g = f
    BY <1>1, <1>2, <2>1
  <2>2. CASE g # f
    <3>1. firing'[g] = firing[g] /\ firing[g] \in FiringRow /\ faults \in Nat
      BY <1>1, <2>2 DEF TypeOK
    <3>2. firing[g].sent \in Nat /\ firing[g].attempt \in Nat
      BY <3>1 DEF FiringRow
    <3>3. firing[g].sent <= firing[g].attempt + faults + (IF pc = "record" /\ slot = g THEN 1 ELSE 0)
      BY <1>2, <3>1 DEF RetriesBounded
    <3> QED
      BY <2>2, <3>1, <3>2, <3>3
  <2> QED
    BY <2>1, <2>2
<1> QED
  BY <1>1, <1>2 DEF RetriesBounded

\* A firing that is resolved, or one that is new, satisfies the bound.
LEMMA NewFirings ==
  /\ NoFiring \in FiringRow /\ ~NoFiring.used
  /\ \A r \in Rule : /\ NewFiring(r) \in FiringRow
                     /\ NewFiring(r).sent = 1 /\ NewFiring(r).attempt = 1
BY DEF NoFiring, NewFiring, FiringRow

\* Two tables of firings of which the second has fewer that are pending.
LEMMA FiringsDropped ==
  ASSUME TypeOK, RetriesBounded, firing' \in [Slot -> FiringRow],
         \A f \in Slot : firing'[f].used => firing'[f] = firing[f],
         UNCHANGED <<pc, slot, faults>>
  PROVE  RetriesBounded'
BY DEF RetriesBounded

-----------------------------------------------------------------------------
(* Around the evaluator. *)

\* What others may do to the evaluator: they delete items and lift cooldowns,
\* rules come and go, and what is on record about a rule grows while it exists.
LEMMA OthersKeep ==
  ASSUME AlertsInv, UNCHANGED <<worker, faults, told, early>>,
         item' \in [Item -> {"none", "open", "visible", "ripe", "gone"}],
         \A i \in Item : /\ item[i] = "gone" => item'[i] = "gone"
                         /\ item[i] = "ripe" => item'[i] \in {"ripe", "gone"},
         rule' \in [Rule -> RuleRow], fresh' \in [Rule -> BOOLEAN],
         chosen' \in [Rule -> SUBSET Project],
         excused' \in [Rule -> SUBSET Item], late' \in [Rule -> SUBSET Item],
         \A r \in Rule :
           /\ fresh'[r] => fresh[r]
           /\ rule'[r].marked => rule[r].marked
           /\ rule[r].state # "absent" => rule'[r].state # "absent" /\ chosen[r] \subseteq chosen'[r]
           /\ rule'[r].state # "deleted" /\ rule[r].state # "absent" =>
                /\ rule[r].state # "deleted"
                /\ excused[r] \subseteq excused'[r] /\ late[r] \subseteq late'[r]
           /\ \/ rule'[r].since \subseteq rule[r].since /\ rule[r].state # "absent"
              \/ rule'[r].since \subseteq excused'[r]
           /\ RowSound(r)',
         firing' \in [Slot -> FiringRow], RetriesBounded'
  PROVE  AlertsInv'
<1>1. UNCHANGED <<pc, due, retries, cur, slot, asOf, found, sentOk, faults, told, early>>
  BY DEF worker
<1>a. TypeOK /\ DueSound /\ WorkSound /\ NothingEscapes /\ ScopeRespected
  BY DEF AlertsInv
<1>2. TypeOK'
  BY <1>1, <1>a DEF TypeOK
<1>3. ASSUME NEW r \in Rule, NEW i, rule[r].state # "absent", rule'[r].state # "deleted",
             i \in Item, Covered(r, i)
      PROVE  Covered(r, i)'
  BY <1>1, <1>3 DEF Covered
<1>4. ASSUME NEW d \in DueRec, ReadSound(d)
      PROVE  ReadSound(d)'
  <2>1. d.id \in Rule /\ d.since \subseteq Item
    BY DEF DueRec
  <2>2. Scope(d.projects)' = Scope(d.projects)
    BY DEF Scope
  <2>3. AllCovered(d.id, d.since)'
    BY <1>3, <1>4, <2>1 DEF AllCovered, ReadSound
  <2> QED
    BY <1>4, <2>1, <2>2, <2>3 DEF ReadSound
<1>5. DueSound'
  <2>1. \A d \in due : d \in DueRec /\ d.id \in Rule
    BY <1>a DEF TypeOK, DueRec
  <2>2. \A d \in due : ReadSound(d)'
    BY <1>4, <1>a, <2>1 DEF DueSound
  <2>3. \A d \in due : ~(rule'[d.id].marked /\ fresh'[d.id])
    BY <1>a, <2>1 DEF DueSound
  <2> QED
    BY <1>1, <1>a, <2>2, <2>3 DEF DueSound
<1>6. WorkSound'
  <2> SUFFICES ASSUME pc \in AtRule
               PROVE  /\ ReadSound(cur)'
                      /\ pc \in {"count", "deliver"} => ~(rule'[cur.id].marked /\ fresh'[cur.id])
                      /\ rule'[cur.id].state # "deleted" => \A i \in asOf : Place(i)'
                      /\ \A i \in found : Of[i] \in chosen'[cur.id]
    BY <1>1 DEF WorkSound
  <2>1. cur \in DueRec /\ cur.id \in Rule /\ asOf \subseteq Item
    BY <1>a DEF TypeOK, DueRec
  <2>2. ReadSound(cur)'
    BY <1>1, <1>4, <1>a, <2>1 DEF WorkSound
  <2>3. rule[cur.id].state # "absent"
    BY <1>a DEF WorkSound, ReadSound
  <2>4. ASSUME NEW i \in asOf, rule'[cur.id].state # "deleted"
        PROVE  Place(i)'
    <3>1. rule[cur.id].state # "deleted" /\ Place(i) /\ i \in Item
      BY <1>a, <2>1, <2>3, <2>4 DEF WorkSound
    <3>2. CASE Covered(cur.id, i)
      <4>1. Covered(cur.id, i)'
        BY <1>1, <1>3, <2>1, <2>3, <2>4, <3>1, <3>2 DEF Covered
      <4> QED
        BY <4>1 DEF Place
    <3>3. CASE pc = "count" /\ i \in Countable \cap Wanted(cur.trigger, cur.projects)
      <4>1. item'[i] \in {"ripe", "gone"}
        BY <3>1, <3>3 DEF Countable
      <4>2. Wanted(cur.trigger, cur.projects)' = Wanted(cur.trigger, cur.projects)
        BY <1>1 DEF Wanted, Scope
      <4> QED
        BY <1>1, <3>1, <3>3, <4>1, <4>2 DEF Place, Countable, Covered
    <3>4. CASE pc = "deliver" /\ i \in found
      BY <1>1, <3>4 DEF Place
    <3>5. CASE pc = "log" /\ ~sentOk /\ i \in found
      BY <1>1, <3>5 DEF Place
    <3> QED
      BY <3>1, <3>2, <3>3, <3>4, <3>5 DEF Place
  <2>5. \A i \in found : Of[i] \in chosen'[cur.id]
    BY <1>a, <2>1, <2>3 DEF WorkSound
  <2>6. pc \in {"count", "deliver"} => ~(rule'[cur.id].marked /\ fresh'[cur.id])
    BY <1>a, <2>1 DEF WorkSound
  <2> QED
    BY <2>2, <2>4, <2>5, <2>6
<1>7. NothingEscapes'
  <2> SUFFICES ASSUME NEW r \in Rule, NEW i \in rule'[r].since
               PROVE  Covered(r, i)'
    BY DEF NothingEscapes, Covered
  <2>1. rule'[r].state # "deleted" /\ i \in Item
    BY DEF RowSound, RuleRow
  <2>2. CASE i \in rule[r].since /\ rule[r].state # "absent"
    <3>1. Covered(r, i)
      BY <1>a, <2>2 DEF NothingEscapes, Covered
    <3> QED
      BY <1>3, <2>1, <2>2, <3>1
  <2>3. CASE i \in excused'[r]
    BY <2>3 DEF Covered
  <2> QED
    BY <2>2, <2>3
<1>8. ScopeRespected'
  <2> SUFFICES ASSUME NEW r \in Rule, NEW i \in told[r] PROVE Of[i] \in chosen'[r]
    BY <1>1 DEF ScopeRespected
  <2>1. rule[r].state # "absent"
    BY DEF AlertsInv, RowSound
  <2> QED
    BY <1>a, <2>1 DEF ScopeRespected
<1> QED
  BY <1>2, <1>5, <1>6, <1>7, <1>8 DEF AlertsInv

\* The part of OthersKeep for those that change no rule.
LEMMA RulesKept ==
  ASSUME AlertsInv, UNCHANGED <<worker, faults, rule, history>>,
         item' \in [Item -> {"none", "open", "visible", "ripe", "gone"}],
         \A i \in Item : /\ item[i] = "gone" => item'[i] = "gone"
                         /\ item[i] = "ripe" => item'[i] \in {"ripe", "gone"},
         fresh' \in [Rule -> BOOLEAN], \A r \in Rule : fresh'[r] => fresh[r],
         firing' \in [Slot -> FiringRow], RetriesBounded'
  PROVE  AlertsInv'
<1>1. UNCHANGED <<told, early, chosen, excused, late>>
  BY DEF history
<1>2. \A r \in Rule : RowSound(r)'
  BY <1>1 DEF AlertsInv, RowSound, ruleHasScope, Scope
<1>3. \A r \in Rule : rule[r].state # "absent" \/ rule[r].since \subseteq excused[r]
  BY DEF AlertsInv, RowSound
<1>4. TypeOK
  BY DEF AlertsInv
<1>5. rule \in [Rule -> RuleRow] /\ chosen \in [Rule -> SUBSET Project]
      /\ excused \in [Rule -> SUBSET Item] /\ late \in [Rule -> SUBSET Item]
  BY <1>4 DEF TypeOK
<1>6. \A r \in Rule : rule[r].state = "deleted" => rule'[r].state = "deleted"
  OBVIOUS
<1> QED
  BY <1>1, <1>2, <1>3, <1>5, <1>6, OthersKeep

\* An item's transaction begins, commits, or the item reaches min_occurrences.
LEMMA ItemSteps ==
  ASSUME AlertsInv, NEW i \in Item, ItemBegins(i) \/ ItemCommits(i) \/ ItemRipens(i)
  PROVE  AlertsInv'
<1>a. TypeOK /\ RetriesBounded
  BY DEF AlertsInv
<1>1. PICK st \in {"open", "visible", "ripe"} : item' = [item EXCEPT ![i] = st]
  BY DEF ItemBegins, ItemCommits, ItemRipens
<1>2. item[i] \notin {"gone", "ripe"}
  BY DEF ItemBegins, ItemCommits, ItemRipens
<1>3. UNCHANGED <<worker, faults, rule, history, fresh, firing>>
  BY DEF ItemBegins, ItemCommits, ItemRipens
<1>4. /\ item' \in [Item -> {"none", "open", "visible", "ripe", "gone"}]
      /\ \A j \in Item : j # i => item'[j] = item[j]
  BY <1>1, <1>a DEF TypeOK
<1>5. \A j \in Item : /\ item[j] = "gone" => item'[j] = "gone"
                      /\ item[j] = "ripe" => item'[j] \in {"ripe", "gone"}
  BY <1>2, <1>4
<1>6. RetriesBounded'
  BY <1>3, <1>a, FiringsDropped DEF worker, TypeOK
<1> QED
  BY <1>3, <1>4, <1>5, <1>6, <1>a, RulesKept DEF TypeOK

\* A cooldown or the delay before a retry is over.
LEMMA TimePasses ==
  ASSUME AlertsInv, (\E r \in Rule : CooldownEnds(r)) \/ (\E f \in Slot : RetryDelayEnds(f))
  PROVE  AlertsInv'
<1>a. TypeOK /\ RetriesBounded
  BY DEF AlertsInv
<1>1. ASSUME NEW r \in Rule, CooldownEnds(r) PROVE AlertsInv'
  <2>1. UNCHANGED <<worker, faults, rule, history, item, firing>>
    BY <1>1 DEF CooldownEnds
  <2>2. fresh' \in [Rule -> BOOLEAN] /\ \A x \in Rule : fresh'[x] => fresh[x]
    BY <1>1, <1>a DEF CooldownEnds, TypeOK
  <2>3. RetriesBounded'
    BY <2>1, <1>a, FiringsDropped DEF worker, TypeOK
  <2> QED
    BY <1>a, <2>1, <2>2, <2>3, RulesKept DEF TypeOK
<1>2. ASSUME NEW f \in Slot, RetryDelayEnds(f) PROVE AlertsInv'
  <2> DEFINE row == [firing[f] EXCEPT !.due = TRUE]
  <2>1. UNCHANGED <<worker, faults, rule, history, item, fresh>>
    BY <1>2 DEF RetryDelayEnds, env
  <2>2. UNCHANGED <<pc, slot, faults>>
    BY <2>1 DEF worker
  <2>3. firing[f] \in FiringRow
    BY <1>a DEF TypeOK
  <2>4. row \in FiringRow /\ row.sent = firing[f].sent /\ row.attempt = firing[f].attempt
    BY <2>3 DEF FiringRow
  <2>5. firing' = [firing EXCEPT ![f] = row]
    BY <1>2, <1>a DEF RetryDelayEnds, TypeOK
  <2>6. firing[f].used
    BY <1>2 DEF RetryDelayEnds
  <2>7. row.sent <= row.attempt + faults' + (IF pc' = "record" /\ slot' = f THEN 1 ELSE 0)
    BY <2>2, <2>4, <2>6, <1>a DEF RetriesBounded
  <2>8. faults' \in Nat /\ faults' >= faults
    BY <2>2, <1>a DEF TypeOK
  <2> HIDE DEF row
  <2>9. firing' \in [Slot -> FiringRow] /\ RetriesBounded'
    BY <1>a, <2>2, <2>4, <2>5, <2>7, <2>8, FiringReplaced
  <2> QED
    BY <1>a, <2>1, <2>9, RulesKept DEF TypeOK
<1> QED
  BY <1>1, <1>2

\* A project that goes takes its items along, and its place in the scopes: a
\* rule that loses its last project has no scope, it does not become global.
LEMMA ProjectGoes ==
  ASSUME AlertsInv, NEW p \in Project, DeleteProject(p)
  PROVE  AlertsInv'
<1>a. TypeOK /\ RetriesBounded
  BY DEF AlertsInv
<1>1. UNCHANGED <<worker, faults, fresh, firing, told, early, chosen, excused, late>>
  BY DEF DeleteProject, history
<1>2. /\ item' \in [Item -> {"none", "open", "visible", "ripe", "gone"}]
      /\ \A i \in Item : item'[i] \in {item[i], "gone"}
  BY <1>a DEF DeleteProject, TypeOK
<1>3. rule' = [r \in Rule |-> [rule[r] EXCEPT !.projects = @ \ {p}]]
  BY DEF DeleteProject
<1>4. ASSUME NEW r \in Rule
      PROVE  /\ rule'[r] \in RuleRow
             /\ rule'[r].state = rule[r].state /\ rule'[r].since = rule[r].since
             /\ rule'[r].marked = rule[r].marked /\ rule'[r].global = rule[r].global
             /\ rule'[r].projects = rule[r].projects \ {p}
  <2>1. rule[r] \in RuleRow
    BY <1>a DEF TypeOK
  <2> QED
    BY <1>3, <2>1 DEF RuleRow
<1>5. rule' \in [Rule -> RuleRow]
  BY <1>3, <1>4
<1>6. \A r \in Rule : RowSound(r)'
  <2> SUFFICES ASSUME NEW r \in Rule PROVE RowSound(r)'
    OBVIOUS
  <2>1. RowSound(r) /\ rule[r].projects \subseteq Project
    BY <1>a DEF AlertsInv, TypeOK, RuleRow
  <2>2. rule'[r].state \in {"enabled", "disabled"} /\ ruleHasScope(r)' =>
          Scope(rule'[r].projects) \subseteq chosen'[r]
    <3>1. SUFFICES ASSUME rule[r].state \in {"enabled", "disabled"}, ruleHasScope(r)'
                   PROVE  Scope(rule'[r].projects) \subseteq chosen[r]
      BY <1>1, <1>4
    <3>2. ruleHasScope(r)
      BY <1>4, <3>1 DEF ruleHasScope
    <3>3. Scope(rule[r].projects) \subseteq chosen[r]
      BY <2>1, <3>1, <3>2 DEF RowSound
    <3>4. Scope(rule'[r].projects) \subseteq Scope(rule[r].projects)
      BY <1>4, <2>1, <3>1 DEF Scope, ruleHasScope, RowSound
    <3> QED
      BY <3>3, <3>4
  <2>3. Scope(rule[r].projects)' = Scope(rule'[r].projects)
    BY DEF Scope
  <2> QED
    BY <1>1, <1>4, <2>1, <2>2, <2>3 DEF RowSound
<1>7. \A r \in Rule : rule[r].state # "absent" \/ rule[r].since = {}
  BY DEF AlertsInv, RowSound
<1>8. RetriesBounded'
  BY <1>1, <1>a, FiringsDropped DEF worker, TypeOK
<1> QED
  BY <1>1, <1>2, <1>4, <1>5, <1>6, <1>7, <1>8, <1>a, OthersKeep DEF TypeOK

\* A new rule looks at what is stamped after it was stored.
LEMMA RuleCreated ==
  ASSUME AlertsInv, NEW r \in Rule, NEW t \in Trigger, NEW ps \in ProjectIDs,
         handleCreateAlertRule(r, t, ps)
  PROVE  AlertsInv'
<1>a. TypeOK /\ RetriesBounded /\ \A x \in Rule : RowSound(x)
  BY DEF AlertsInv
<1>1. UNCHANGED <<worker, faults, item, fresh, firing, told, early, late>>
  BY DEF handleCreateAlertRule, env
<1> DEFINE row == [NoRule EXCEPT !.state = "enabled", !.trigger = t, !.projects = ps,
                                 !.global = (ps = {}), !.since = Begun]
<1>2. t \in validTriggers /\ ps \subseteq Project /\ Begun \subseteq Item
  BY AlertsAssumption DEF Begun
<1>3. /\ row \in RuleRow /\ row.state = "enabled" /\ row.projects = ps /\ row.since = Begun
      /\ row.global = (ps = {}) /\ ~row.marked
  BY <1>2 DEF NoRule, RuleRow, States
<1>4. /\ rule' = [rule EXCEPT ![r] = row] /\ chosen' = [chosen EXCEPT ![r] = Scope(ps)]
      /\ excused' = [excused EXCEPT ![r] = Begun] /\ rule[r].state = "absent"
  BY DEF handleCreateAlertRule, CreateAlertRule, NoRule
<1> HIDE DEF row
<1>5. Scope(ps) \subseteq Project
  BY <1>2 DEF Scope
<1>6. /\ rule' \in [Rule -> RuleRow] /\ \A x \in Rule : rule'[x] = IF x = r THEN row ELSE rule[x]
      /\ chosen' \in [Rule -> SUBSET Project]
      /\ \A x \in Rule : chosen'[x] = IF x = r THEN Scope(ps) ELSE chosen[x]
      /\ excused' \in [Rule -> SUBSET Item]
      /\ \A x \in Rule : excused'[x] = IF x = r THEN Begun ELSE excused[x]
  BY <1>2, <1>3, <1>4, <1>5, <1>a DEF TypeOK
<1>7. \A x \in Rule : RowSound(x)'
  <2> SUFFICES ASSUME NEW x \in Rule PROVE RowSound(x)'
    OBVIOUS
  <2>1. Scope(rule[x].projects)' = Scope(rule'[x].projects) /\ RowSound(x)
    BY <1>a DEF Scope
  <2>2. CASE x = r
    BY <1>3, <1>6, <2>1, <2>2 DEF RowSound
  <2>3. CASE x # r
    BY <1>1, <1>6, <2>1, <2>3 DEF RowSound, ruleHasScope, Scope
  <2> QED
    BY <2>2, <2>3
<1>8. RetriesBounded'
  BY <1>1, <1>a, FiringsDropped DEF worker, TypeOK
<1>9. ASSUME NEW x \in Rule
      PROVE  /\ fresh'[x] => fresh[x]
             /\ rule'[x].marked => rule[x].marked
             /\ rule[x].state # "absent" => rule'[x].state # "absent" /\ chosen[x] \subseteq chosen'[x]
             /\ rule'[x].state # "deleted" /\ rule[x].state # "absent" =>
                  /\ rule[x].state # "deleted"
                  /\ excused[x] \subseteq excused'[x] /\ late[x] \subseteq late'[x]
             /\ \/ rule'[x].since \subseteq rule[x].since /\ rule[x].state # "absent"
                \/ rule'[x].since \subseteq excused'[x]
  <2>1. rule[x].state = "absent" => rule[x].since = {}
    BY <1>a DEF RowSound
  <2>2. CASE x = r
    BY <1>1, <1>3, <1>4, <1>6, <2>2
  <2>3. CASE x # r
    BY <1>1, <1>6, <2>1, <2>3
  <2> QED
    BY <2>2, <2>3
<1> QED
  BY <1>1, <1>6, <1>7, <1>8, <1>9, <1>a, OthersKeep DEF TypeOK

\* An edit: the projects ever chosen for the rule include the new ones.
LEMMA RuleUpdated ==
  ASSUME AlertsInv, NEW r \in Rule, handleUpdateAlertRule(r)
  PROVE  AlertsInv'
<1>a. TypeOK /\ RetriesBounded /\ \A x \in Rule : RowSound(x)
  BY DEF AlertsInv
<1>1. UNCHANGED <<worker, faults, item, fresh, firing, told, early, excused, late>>
  BY DEF handleUpdateAlertRule
<1>2. rule[r].state \in {"enabled", "disabled"} /\ rule[r] \in RuleRow
  BY <1>a DEF handleUpdateAlertRule, TypeOK
<1>3. PICK row \in Patched(rule[r]) :
        /\ UpdateAlertRule(r, row)
        /\ chosen' = [chosen EXCEPT ![r] = @ \cup Scope(row.projects)]
  BY DEF handleUpdateAlertRule
<1>4. row \in RuleRow /\ row.state \in {"enabled", "disabled"}
  <2>1. row \in RuleRow
    BY <1>2, <1>3, AlertsAssumption DEF Patched, RuleRow, States
  <2>2. row.state \in {"enabled", "disabled"}
    BY <1>2, <1>3 DEF Patched, RuleRow
  <2> QED
    BY <2>1, <2>2
<1> DEFINE new == [rule[r] EXCEPT !.state = row.state, !.trigger = row.trigger,
                                  !.projects = row.projects, !.global = (row.projects = {})]
<1>5. /\ new \in RuleRow /\ new.state = row.state /\ new.projects = row.projects
      /\ new.global = (row.projects = {}) /\ new.since = rule[r].since
      /\ new.marked = rule[r].marked
  BY <1>2, <1>4 DEF RuleRow
<1>6. rule' = [rule EXCEPT ![r] = new]
  BY <1>3, <1>a DEF UpdateAlertRule, TypeOK
<1> HIDE DEF new
<1>7. Scope(row.projects) \subseteq Project
  BY <1>4 DEF Scope, RuleRow
<1>8. /\ rule' \in [Rule -> RuleRow] /\ \A x \in Rule : rule'[x] = IF x = r THEN new ELSE rule[x]
      /\ chosen' \in [Rule -> SUBSET Project]
      /\ \A x \in Rule : chosen'[x] = IF x = r THEN chosen[r] \cup Scope(row.projects) ELSE chosen[x]
  BY <1>3, <1>5, <1>6, <1>7, <1>a DEF TypeOK
<1>9. \A x \in Rule : RowSound(x)'
  <2> SUFFICES ASSUME NEW x \in Rule PROVE RowSound(x)'
    OBVIOUS
  <2>1. Scope(rule[x].projects)' = Scope(rule'[x].projects) /\ RowSound(x)
    BY <1>a DEF Scope
  <2>2. CASE x = r
    BY <1>1, <1>2, <1>4, <1>5, <1>8, <2>1, <2>2 DEF RowSound
  <2>3. CASE x # r
    BY <1>1, <1>8, <2>1, <2>3 DEF RowSound, ruleHasScope, Scope
  <2> QED
    BY <2>2, <2>3
<1>10. RetriesBounded'
  BY <1>1, <1>a, FiringsDropped DEF worker, TypeOK
<1>11. ASSUME NEW x \in Rule
      PROVE  /\ fresh'[x] => fresh[x]
             /\ rule'[x].marked => rule[x].marked
             /\ rule[x].state # "absent" => rule'[x].state # "absent" /\ chosen[x] \subseteq chosen'[x]
             /\ rule'[x].state # "deleted" /\ rule[x].state # "absent" =>
                  /\ rule[x].state # "deleted"
                  /\ excused[x] \subseteq excused'[x] /\ late[x] \subseteq late'[x]
             /\ \/ rule'[x].since \subseteq rule[x].since /\ rule[x].state # "absent"
                \/ rule'[x].since \subseteq excused'[x]
  <2>1. rule[x].state = "absent" => rule[x].since = {}
    BY <1>a DEF RowSound
  <2>2. CASE x = r
    BY <1>1, <1>2, <1>4, <1>5, <1>8, <2>2
  <2>3. CASE x # r
    BY <1>1, <1>8, <2>1, <2>3
  <2> QED
    BY <2>2, <2>3
<1> QED
  BY <1>1, <1>8, <1>9, <1>10, <1>11, <1>a, OthersKeep DEF TypeOK

\* A rule that is deleted takes its firings along.
LEMMA RuleDeleted ==
  ASSUME AlertsInv, NEW r \in Rule, handleDeleteAlertRule(r)
  PROVE  AlertsInv'
<1>a. TypeOK /\ RetriesBounded /\ \A x \in Rule : RowSound(x)
  BY DEF AlertsInv
<1>1. UNCHANGED <<worker, faults, item, fresh, told, early, chosen>>
  BY DEF handleDeleteAlertRule
<1> DEFINE row == [NoRule EXCEPT !.state = "deleted"]
<1>2. /\ row \in RuleRow /\ row.state = "deleted" /\ row.since = {} /\ row.projects = {}
      /\ row.global /\ ~row.marked
  BY DEF NoRule, RuleRow, States, validTriggers, SoughtOfIssues
<1>3. /\ rule' = [rule EXCEPT ![r] = row] /\ rule[r].state # "absent"
      /\ excused' = [excused EXCEPT ![r] = {}] /\ late' = [late EXCEPT ![r] = {}]
      /\ firing' = [f \in Slot |-> IF firing[f].rule = r THEN NoFiring ELSE firing[f]]
  BY DEF handleDeleteAlertRule
<1> HIDE DEF row
<1>4. /\ rule' \in [Rule -> RuleRow] /\ \A x \in Rule : rule'[x] = IF x = r THEN row ELSE rule[x]
      /\ excused' \in [Rule -> SUBSET Item] /\ \A x \in Rule : x # r => excused'[x] = excused[x]
      /\ late' \in [Rule -> SUBSET Item] /\ \A x \in Rule : x # r => late'[x] = late[x]
  BY <1>2, <1>3, <1>a DEF TypeOK
<1>5. \A x \in Rule : RowSound(x)'
  <2> SUFFICES ASSUME NEW x \in Rule PROVE RowSound(x)'
    OBVIOUS
  <2>1. Scope(rule[x].projects)' = Scope(rule'[x].projects) /\ RowSound(x)
    BY <1>a DEF Scope
  <2>2. CASE x = r
    BY <1>2, <1>4, <2>1, <2>2 DEF RowSound
  <2>3. CASE x # r
    BY <1>1, <1>4, <2>1, <2>3 DEF RowSound, ruleHasScope, Scope
  <2> QED
    BY <2>2, <2>3
<1>6. /\ firing' \in [Slot -> FiringRow]
      /\ \A f \in Slot : firing'[f].used => firing'[f] = firing[f]
  BY <1>3, <1>a, NewFirings DEF TypeOK
<1>7. RetriesBounded'
  BY <1>1, <1>6, <1>a, FiringsDropped DEF worker
<1>8. ASSUME NEW x \in Rule
      PROVE  /\ fresh'[x] => fresh[x]
             /\ rule'[x].marked => rule[x].marked
             /\ rule[x].state # "absent" => rule'[x].state # "absent" /\ chosen[x] \subseteq chosen'[x]
             /\ rule'[x].state # "deleted" /\ rule[x].state # "absent" =>
                  /\ rule[x].state # "deleted"
                  /\ excused[x] \subseteq excused'[x] /\ late[x] \subseteq late'[x]
             /\ \/ rule'[x].since \subseteq rule[x].since /\ rule[x].state # "absent"
                \/ rule'[x].since \subseteq excused'[x]
  <2>1. rule[x].state = "absent" => rule[x].since = {}
    BY <1>a DEF RowSound
  <2>2. CASE x = r
    BY <1>1, <1>2, <1>3, <1>4, <2>2
  <2>3. CASE x # r
    BY <1>1, <1>4, <2>1, <2>3
  <2> QED
    BY <2>2, <2>3
<1> QED
  BY <1>1, <1>4, <1>5, <1>6, <1>7, <1>8, <1>a, OthersKeep DEF TypeOK

\* The notice that an issue was resolved is a firing of its own.
LEMMA ResolvedNotice ==
  ASSUME AlertsInv, NEW r \in Rule, NotifyAutoResolved(r)
  PROVE  AlertsInv'
<1>a. TypeOK /\ RetriesBounded
  BY DEF AlertsInv
<1> DEFINE f == Min(Free \ retries)
           row == NewFiring(r)
<1>1. UNCHANGED <<worker, faults, rule, history, item, fresh>> /\ firing' = [firing EXCEPT ![f] = row]
  BY DEF NotifyAutoResolved, env
<1>2. row \in FiringRow /\ row.sent = 1 /\ row.attempt = 1
  BY NewFirings
<1> HIDE DEF f, row
<1>3. UNCHANGED <<pc, slot, faults>> /\ faults \in Nat
  BY <1>1, <1>a DEF worker, TypeOK
<1>4. row.sent <= row.attempt + faults' + (IF pc' = "record" /\ slot' = f THEN 1 ELSE 0)
  BY <1>2, <1>3
<1>5. faults' \in Nat /\ faults' >= faults
  BY <1>3
<1>6. firing' \in [Slot -> FiringRow] /\ RetriesBounded'
  BY <1>1, <1>2, <1>3, <1>4, <1>5, <1>a, FiringReplaced
<1> QED
  BY <1>1, <1>6, <1>a, RulesKept DEF TypeOK

-----------------------------------------------------------------------------
(* The evaluator. *)

Away == {"idle", "rules", "list", "retry", "record"}

\* The evaluator is done with a rule, or at its retries, or gives up: what it
\* has read and not used can be forgotten.
LEMMA Retreats ==
  ASSUME AlertsInv, pc' \in Away, due' \subseteq due, pc' # "rules" => due' = {},
         asOf' \subseteq Item, found' = {}, sentOk' \in BOOLEAN,
         UNCHANGED <<item, rule, fresh, history>>,
         faults' \in Nat, firing' \in [Slot -> FiringRow], RetriesBounded'
  PROVE  AlertsInv'
<1>1. UNCHANGED <<item, rule, fresh, chosen, told, excused, late, early>>
  BY DEF history
<1>2. pc' \notin AtRule
  BY DEF Away, AtRule
<1>3. TypeOK'
  BY <1>1, <1>2 DEF AlertsInv, TypeOK, Away
<1>4. DueSound'
  BY <1>1, <1>2 DEF AlertsInv, DueSound, ReadSound, AllCovered, Covered, Scope
<1>5. WorkSound'
  BY <1>2 DEF WorkSound
<1>6. (\A r \in Rule : RowSound(r))' /\ NothingEscapes' /\ ScopeRespected'
  BY <1>1 DEF AlertsInv, RowSound, ruleHasScope, Scope, NothingEscapes, ScopeRespected
<1> QED
  BY <1>3, <1>4, <1>5, <1>6 DEF AlertsInv

\* On to the next rule with nothing written.
LEMMA GoesOn ==
  ASSUME AlertsInv, pc \in AtRule, NextRule, UNCHANGED <<item, rule, fresh, history, firing>>,
         faults' \in Nat, faults' >= faults
  PROVE  AlertsInv'
<1>1. /\ pc' = "rules" /\ due' = due /\ asOf' = {} /\ found' = {} /\ sentOk' = FALSE
  BY DEF NextRule
<1>2. pc # "record" /\ pc' # "record"
  BY <1>1 DEF AtRule
<1>3. RetriesBounded' /\ firing' \in [Slot -> FiringRow]
  BY <1>2, FiringsKept DEF AlertsInv, TypeOK
<1> QED
  BY <1>1, <1>3, Retreats DEF Away

LEMMA Breaks ==
  ASSUME AlertsInv, RulesDone \/ EvaluateFails \/ CountFails \/ MarkFails
                      \/ ListRetries \/ ListRetriesFails \/ RetriesDone \/ Crash
  PROVE  AlertsInv'
<1>a. TypeOK /\ RetriesBounded
  BY DEF AlertsInv
<1>b. faults \in Nat /\ (Fault => faults' = faults + 1)
  BY <1>a DEF TypeOK, Fault
<1>1. CASE RulesDone \/ EvaluateFails \/ ListRetries \/ ListRetriesFails \/ RetriesDone
  <2>1. /\ pc' \in Away \ {"rules", "record"} /\ due' = {} /\ asOf' = asOf /\ found' = {}
        /\ sentOk' = sentOk /\ pc # "record"
        /\ UNCHANGED <<item, rule, fresh, firing, history>>
    BY <1>1, <1>a DEF RulesDone, EvaluateFails, ListRetries, ListRetriesFails, RetriesDone, env,
                      Away, TypeOK, AtRule
  <2>2. faults' \in Nat /\ faults' >= faults
    BY <1>1, <1>b DEF RulesDone, EvaluateFails, ListRetries, ListRetriesFails, RetriesDone
  <2>3. RetriesBounded'
    BY <1>a, <2>1, <2>2, FiringsKept
  <2> QED
    BY <1>a, <2>1, <2>2, <2>3, Retreats DEF TypeOK
<1>2. CASE CountFails \/ MarkFails
  <2>1. NextRule /\ pc \in AtRule /\ UNCHANGED <<item, rule, fresh, history, firing>> /\ Fault
    BY <1>2 DEF CountFails, MarkFails, env, AtRule
  <2> QED
    BY <1>b, <2>1, GoesOn
<1>3. CASE Crash
  <2>1. /\ pc' = "idle" /\ due' = {} /\ asOf' = {} /\ found' = {} /\ sentOk' = FALSE
        /\ UNCHANGED <<item, rule, fresh, firing, history>> /\ Fault
    BY <1>3 DEF Crash, env
  <2>2. faults' \in Nat /\ faults' >= faults + 1
    BY <1>b, <2>1
  <2>3. RetriesBounded'
    BY <1>a, <1>b, <2>1, <2>2, FiringsKept
  <2> QED
    BY <1>a, <2>1, <2>2, <2>3, Retreats DEF TypeOK, Away
<1> QED
  BY <1>1, <1>2, <1>3

\* The retries: a copy is sent, its outcome recorded, or the firing given up.
LEMMA Retries ==
  ASSUME AlertsInv,
         \/ RetryRecord \/ \E resolved \in BOOLEAN : RetryRecordFails(resolved)
         \/ \E f \in Slot : \/ RetryCancelled(f) \/ RetryLookupFails(f)
                            \/ \E ok \in BOOLEAN : RetryDeliver(f, ok)
  PROVE  AlertsInv'
<1>a. TypeOK /\ RetriesBounded /\ faults \in Nat /\ firing \in [Slot -> FiringRow]
  BY DEF AlertsInv, TypeOK
<1>b. Fault => faults' = faults + 1
  BY DEF Fault
<1>c. pc \notin {"rules"} \cup AtRule => due = {}
  BY <1>a DEF TypeOK
<1>d. \A f \in Slot : /\ firing[f].sent \in Nat /\ firing[f].attempt \in Nat
                      /\ firing[f].used => firing[f].sent <= firing[f].attempt + faults +
                                             (IF pc = "record" /\ slot = f THEN 1 ELSE 0)
  BY <1>a DEF FiringRow, RetriesBounded
<1>1. ASSUME NEW f \in Slot, RetryCancelled(f) \/ RetryLookupFails(f) PROVE AlertsInv'
  <2>1. /\ pc = "retry" /\ pc' = "retry" /\ firing' = [firing EXCEPT ![f] = NoFiring]
        /\ UNCHANGED <<item, rule, fresh, history, due, asOf, found, sentOk>>
    BY <1>1 DEF RetryCancelled, RetryLookupFails, Resolved, env
  <2>2. faults' \in Nat /\ faults' >= faults
    BY <1>1, <1>a, <1>b DEF RetryCancelled, RetryLookupFails
  <2>3. firing' \in [Slot -> FiringRow] /\ RetriesBounded'
    BY <1>a, <2>1, <2>2, NewFirings, FiringReplaced
  <2>4. pc' \in Away /\ due' = {} /\ found' = {}
    BY <1>a, <1>c, <2>1 DEF Away, AtRule, TypeOK
  <2> QED
    BY <1>a, <2>1, <2>2, <2>3, <2>4, Retreats DEF TypeOK
<1>2. ASSUME NEW f \in Slot, NEW ok \in BOOLEAN, RetryDeliver(f, ok) PROVE AlertsInv'
  <2> DEFINE row == [firing[f] EXCEPT !.sent = firing[f].sent + 1]
  <2>1. /\ pc = "retry" /\ pc' = "record" /\ slot' = f /\ sentOk' \in BOOLEAN
        /\ UNCHANGED <<item, rule, fresh, history, due, asOf, found, faults>>
    BY <1>2 DEF RetryDeliver, env
  <2>2. firing' = [firing EXCEPT ![f] = row]
    BY <1>2, <1>a DEF RetryDeliver
  <2>3. firing[f] \in FiringRow /\ firing[f].used
    BY <1>2, <1>a DEF RetryDeliver, Retriable
  <2>4. row \in FiringRow /\ row.sent = firing[f].sent + 1 /\ row.attempt = firing[f].attempt
    BY <2>3 DEF FiringRow
  <2> HIDE DEF row
  <2>5. firing[f].sent <= firing[f].attempt + faults
    BY <1>a, <1>d, <2>1, <2>3
  <2>6. row.sent <= row.attempt + faults' + (IF pc' = "record" /\ slot' = f THEN 1 ELSE 0)
    BY <1>a, <1>d, <2>1, <2>4, <2>5
  <2>7. firing' \in [Slot -> FiringRow] /\ RetriesBounded'
    <3>1. pc = "retry" /\ pc' = "record" /\ slot' = f /\ faults' \in Nat /\ faults' >= faults
      BY <1>a, <2>1
    <3> QED
      BY <1>a, <2>2, <2>4, <2>6, <3>1, FiringReplaced
  <2>8. pc' \in Away /\ due' = {} /\ found' = {}
    BY <1>a, <1>c, <2>1 DEF Away, AtRule, TypeOK
  <2> QED
    BY <1>a, <2>1, <2>7, <2>8, Retreats DEF TypeOK
<1>3. CASE RetryRecord
  <2>1. /\ pc = "record" /\ pc' = "retry" /\ sentOk' = FALSE
        /\ UNCHANGED <<item, rule, fresh, history, due, asOf, found, faults>>
    BY <1>3 DEF RetryRecord, env
  <2>a. pc = "record" /\ pc' = "retry" /\ faults' \in Nat /\ faults' >= faults
    BY <1>a, <2>1
  <2>2. firing' \in [Slot -> FiringRow] /\ RetriesBounded'
    <3>1. CASE slot \in Slot /\ firing[slot].used /\ ~(sentOk \/ LastAttempt(slot))
      <4> DEFINE row == [firing[slot] EXCEPT !.attempt = firing[slot].attempt + 1, !.due = FALSE]
      <4>1. firing' = [firing EXCEPT ![slot] = row]
        BY <1>3, <1>a, <3>1 DEF RetryRecord, Scheduled
      <4>2. firing[slot] \in FiringRow
        BY <1>a, <3>1
      <4>3. row \in FiringRow
        <5> DEFINE n == firing[slot].attempt + 1
        <5>1. n \in Nat
          BY <4>2 DEF FiringRow
        <5>2. row = [firing[slot] EXCEPT !.attempt = n, !.due = FALSE]
          OBVIOUS
        <5> HIDE DEF n, row
        <5> QED
          BY <4>2, <5>1, <5>2 DEF FiringRow
      <4>5. row.sent = firing[slot].sent
        BY <4>2 DEF FiringRow
      <4>6. row.attempt = firing[slot].attempt + 1
        BY <4>2 DEF FiringRow
      <4> HIDE DEF row
      <4>4. row.sent <= row.attempt + faults' + (IF pc' = "record" /\ slot' = slot THEN 1 ELSE 0)
        BY <1>a, <1>d, <2>1, <3>1, <4>5, <4>6
      <4> QED
        BY <1>a, <2>a, <4>1, <4>3, <4>4, FiringReplaced
    <3>2. CASE slot \in Slot /\ firing[slot].used /\ (sentOk \/ LastAttempt(slot))
      <4>1. firing' = [firing EXCEPT ![slot] = NoFiring]
        BY <1>3, <3>2 DEF RetryRecord, Resolved
      <4> QED
        BY <1>a, <2>a, <4>1, NewFirings, FiringReplaced
    <3>3. CASE slot \in Slot /\ ~firing[slot].used
      <4>1. firing' = firing
        BY <1>3, <3>3 DEF RetryRecord
      <4>2. \A f \in Slot : firing[f].used => f # slot
        BY <3>3
      <4> QED
        BY <1>a, <1>d, <2>1, <4>1, <4>2 DEF RetriesBounded
    <3>4. CASE slot \notin Slot
      <4>1. firing' = firing
        BY <1>3, <1>a, <3>4 DEF RetryRecord, Resolved, Scheduled
      <4> QED
        BY <1>a, <1>d, <2>1, <3>4, <4>1 DEF RetriesBounded
    <3> QED
      BY <3>1, <3>2, <3>3, <3>4
  <2>3. pc' \in Away /\ due' = {} /\ found' = {}
    BY <1>a, <1>c, <2>1 DEF Away, AtRule, TypeOK
  <2> QED
    BY <1>a, <2>1, <2>2, <2>3, Retreats DEF TypeOK
<1>4. ASSUME NEW resolved \in BOOLEAN, RetryRecordFails(resolved) PROVE AlertsInv'
  <2>1. /\ pc = "record" /\ pc' = "retry" /\ sentOk' = FALSE /\ faults' = faults + 1
        /\ UNCHANGED <<item, rule, fresh, history, due, asOf, found>>
    BY <1>4, <1>b DEF RetryRecordFails, env
  <2>2. firing' = firing \/ firing' = [firing EXCEPT ![slot] = NoFiring]
    BY <1>4 DEF RetryRecordFails, Resolved
  <2>3. faults' \in Nat /\ faults' >= faults + 1 /\ faults' >= faults
    BY <1>a, <2>1
  <2>4. firing' \in [Slot -> FiringRow] /\ RetriesBounded'
    <3>1. CASE firing' = firing
      BY <1>a, <2>1, <2>3, <3>1, FiringsKept
    <3>2. CASE firing' = [firing EXCEPT ![slot] = NoFiring]
      BY <1>a, <2>1, <2>3, <3>2, NewFirings, FiringReplaced
    <3> QED
      BY <2>2, <3>1, <3>2
  <2>5. pc' \in Away /\ due' = {} /\ found' = {}
    BY <1>a, <1>c, <2>1 DEF Away, AtRule, TypeOK
  <2> QED
    BY <1>a, <2>1, <2>3, <2>4, <2>5, Retreats DEF TypeOK
<1> QED
  BY <1>1, <1>2, <1>3, <1>4

\* ListDueAlertRules: what a pass reads of a rule is in its scope and on record.
LEMMA Ticks ==
  ASSUME AlertsInv, Tick
  PROVE  AlertsInv'
<1>a. TypeOK /\ RetriesBounded /\ NothingEscapes /\ ScopeRespected /\ \A r \in Rule : RowSound(r)
  BY DEF AlertsInv
<1>1. /\ pc = "idle" /\ pc' = "rules"
      /\ UNCHANGED <<item, rule, fresh, firing, slot, asOf, found, sentOk, faults, chosen, told,
                     excused, late, early>>
  BY DEF Tick, env, history
<1> DEFINE reading(r) == [id |-> r, trigger |-> rule[r].trigger, projects |-> rule[r].projects,
                          since |-> rule[r].since]
<1>2. due' = {reading(r) : r \in {r \in Rule : IsDue(r)}}
  BY DEF Tick
<1>3. \A r \in Rule : reading(r) \in DueRec /\ reading(r).id = r
                      /\ reading(r).projects = rule[r].projects /\ reading(r).since = rule[r].since
  BY <1>a DEF TypeOK, RuleRow, DueRec
<1> HIDE DEF reading
<1>4. \A d \in due' : d \in DueRec /\ d = reading(d.id) /\ IsDue(d.id)
  BY <1>2, <1>3
<1>5. pc' \notin AtRule
  BY <1>1 DEF AtRule
<1>6. TypeOK'
  BY <1>1, <1>4, <1>5, <1>a DEF TypeOK
<1>7. DueSound'
  <2>1. ASSUME NEW d \in due' PROVE ReadSound(d)' /\ ~(rule'[d.id].marked /\ fresh'[d.id])
    <3>1. d.id \in Rule /\ IsDue(d.id) /\ d.projects = rule[d.id].projects /\ d.since = rule[d.id].since
      BY <1>3, <1>4, <2>1 DEF DueRec
    <3>2. Scope(d.projects) \subseteq chosen[d.id]
      BY <1>a, <3>1 DEF RowSound, IsDue
    <3>3. \A i \in d.since : Covered(d.id, i)
      BY <1>a, <3>1 DEF NothingEscapes, Covered
    <3>4. ReadSound(d)
      BY <3>1, <3>2, <3>3 DEF ReadSound, AllCovered, IsDue
    <3> QED
      BY <1>1, <3>1, <3>4 DEF ReadSound, AllCovered, Covered, Scope, IsDue
  <2>2. \A d, e \in due' : d.id = e.id => d = e
    BY <1>4
  <2> QED
    BY <1>5, <2>1, <2>2 DEF DueSound
<1>8. WorkSound'
  BY <1>5 DEF WorkSound
<1>9. (\A r \in Rule : RowSound(r))' /\ NothingEscapes' /\ ScopeRespected'
  BY <1>1, <1>a DEF RowSound, ruleHasScope, Scope, NothingEscapes, ScopeRespected
<1>10. RetriesBounded'
  BY <1>1, <1>a, FiringsDropped, FiringsKept DEF TypeOK
<1> QED
  BY <1>6, <1>7, <1>8, <1>9, <1>10 DEF AlertsInv

\* The evaluator stays at a rule, or turns to one of those it listed: nothing
\* is sent or recorded, and the history says more than before.
LEMMA StaysAt ==
  ASSUME AlertsInv, pc' \in AtRule, pc \in AtRule \cup {"rules"},
         due' \subseteq due, cur' \in DueRec, \A d \in due' : d.id # cur'.id,
         asOf' \subseteq Item, found' \subseteq Item, sentOk' \in BOOLEAN,
         pc' \notin {"deliver", "log"} => found' = {},
         UNCHANGED <<item, chosen>>, early' \in Nat, faults' \in Nat, faults' >= faults,
         firing' = firing \/ (firing' \in [Slot -> FiringRow] /\ RetriesBounded'),
         rule' \in [Rule -> RuleRow], fresh' \in [Rule -> BOOLEAN],
         \A r \in Rule :
           /\ rule'[r].state = rule[r].state /\ rule'[r].since = rule[r].since
           /\ rule'[r].projects = rule[r].projects /\ rule'[r].global = rule[r].global
           /\ r # cur'.id => rule'[r].marked = rule[r].marked /\ fresh'[r] = fresh[r],
         told' \in [Rule -> SUBSET Item], excused' \in [Rule -> SUBSET Item],
         late' \in [Rule -> SUBSET Item],
         \A r \in Rule : /\ told[r] \subseteq told'[r] /\ excused[r] \subseteq excused'[r]
                         /\ late[r] \subseteq late'[r]
                         /\ r # cur'.id => told'[r] = told[r],
         \A i \in told'[cur'.id] : Of[i] \in chosen[cur'.id],
         ReadSound(cur'),
         pc' \in {"count", "deliver"} => ~(rule'[cur'.id].marked /\ fresh'[cur'.id]),
         rule[cur'.id].state # "deleted" => \A i \in asOf' : Place(i)',
         \A i \in found' : Of[i] \in chosen[cur'.id]
  PROVE  AlertsInv'
<1>a. TypeOK /\ DueSound /\ WorkSound /\ RetriesBounded /\ NothingEscapes /\ ScopeRespected
  BY DEF AlertsInv
<1>b. cur'.id \in Rule
  BY DEF DueRec
<1>1. TypeOK'
  BY <1>a DEF TypeOK
<1>2. \A r \in Rule, i \in Item : Covered(r, i) => Covered(r, i)'
  BY DEF Covered
<1>3. ASSUME NEW d \in DueRec, ReadSound(d)
      PROVE  rule'[d.id].state # "absent" /\ Scope(d.projects) \subseteq chosen'[d.id]
             /\ (rule'[d.id].state # "deleted" => \A i \in d.since : Covered(d.id, i)')
  BY <1>2, <1>3 DEF ReadSound, AllCovered, DueRec
<1>4. DueSound'
  <2>1. \A d \in due' : d \in DueRec /\ d.id \in Rule
    BY <1>a DEF TypeOK, DueRec
  <2>2. ASSUME NEW d \in due' PROVE ReadSound(d)' /\ ~(rule'[d.id].marked /\ fresh'[d.id])
    <3>1. ReadSound(d) /\ ~(rule'[d.id].marked /\ fresh'[d.id])
      BY <1>a, <2>1 DEF DueSound
    <3> QED
      BY <1>3, <2>1, <3>1 DEF ReadSound, AllCovered, Scope
  <2> QED
    BY <1>a, <2>2 DEF DueSound
<1>5. WorkSound'
  <2>1. ReadSound(cur)'
    BY <1>3 DEF ReadSound, AllCovered, Scope
  <2>2. rule'[cur'.id].state = rule[cur'.id].state /\ chosen' = chosen
    BY <1>b
  <2> QED
    BY <2>1, <2>2 DEF WorkSound
<1>6. NothingEscapes'
  <2>1. \A r \in Rule : rule[r].since \subseteq Item
    BY <1>a DEF TypeOK, RuleRow
  <2> QED
    BY <1>a, <1>2, <2>1 DEF NothingEscapes, Covered
<1>7. ScopeRespected'
  BY <1>a DEF ScopeRespected
<1>8. ASSUME NEW r \in Rule PROVE RowSound(r)'
  <2>1. rule[r].state = "absent" => told'[r] = told[r] /\ fresh'[r] = fresh[r]
    BY DEF ReadSound
  <2>2. RowSound(r) /\ ruleHasScope(r)' = ruleHasScope(r)
    BY DEF AlertsInv, ruleHasScope
  <2>3. Scope(rule[r].projects)' = Scope(rule[r].projects)
    BY DEF Scope
  <2> QED
    BY <2>1, <2>2, <2>3 DEF RowSound
<1>9. RetriesBounded'
  <2>1. pc # "record" /\ pc' # "record"
    BY DEF AtRule
  <2> QED
    BY <1>a, <2>1, FiringsKept
<1> QED
  BY <1>1, <1>4, <1>5, <1>6, <1>7, <1>8, <1>9 DEF AlertsInv

\* The clock is read before the count: an item stamped by then can be counted,
\* or the history says why not.
LEMMA ReadsClock ==
  ASSUME AlertsInv, NEW d \in due, ReadClock(d)
  PROVE  AlertsInv'
<1>a. TypeOK /\ DueSound
  BY DEF AlertsInv
<1>b. d \in DueRec /\ d.id \in Rule /\ ReadSound(d) /\ ~(rule[d.id].marked /\ fresh[d.id])
  BY <1>a DEF TypeOK, DueSound, DueRec
<1>1. /\ pc = "rules" /\ pc' = "count" /\ cur' = d /\ due' = due \ {d} /\ asOf' = Begun
      /\ late' = [late EXCEPT ![d.id] = @ \cup (Begun \ (Countable \cup told[d.id]))]
      /\ excused' = [excused EXCEPT ![d.id] = @ \cup (Begun \ (Wanted(d.trigger, d.projects) \cup told[d.id]))]
      /\ UNCHANGED <<item, rule, fresh, firing, found, sentOk, faults, chosen, told, early>>
  BY DEF ReadClock, env
<1>2. Begun \subseteq Item
  BY DEF Begun
<1>3. /\ late' \in [Rule -> SUBSET Item] /\ excused' \in [Rule -> SUBSET Item]
      /\ \A r \in Rule : excused[r] \subseteq excused'[r] /\ late[r] \subseteq late'[r]
      /\ Begun \ (Countable \cup told[d.id]) \subseteq late'[d.id]
      /\ Begun \ (Wanted(d.trigger, d.projects) \cup told[d.id]) \subseteq excused'[d.id]
  BY <1>1, <1>2, <1>a, <1>b DEF TypeOK
<1>4. \A i \in asOf' : Place(i)'
  <2> SUFFICES ASSUME NEW i \in Begun PROVE Place(i)'
    BY <1>1
  <2>1. Countable' = Countable /\ Wanted(cur.trigger, cur.projects)' = Wanted(d.trigger, d.projects)
    BY <1>1 DEF Countable, Wanted, Scope
  <2>2. CASE i \in told[d.id] \cup late'[d.id] \cup excused'[d.id]
    BY <1>1, <2>2 DEF Place, Covered
  <2>3. CASE i \in Countable \cap Wanted(d.trigger, d.projects)
    BY <1>1, <2>1, <2>3 DEF Place
  <2> QED
    BY <1>3, <2>2, <2>3
<1>5. found' = {} /\ found' \subseteq Item
  BY <1>1, <1>a DEF TypeOK
<1>6. \A e \in due' : e.id # cur'.id
  BY <1>1, <1>a DEF DueSound
<1>7. \A i \in told[d.id] : Of[i] \in chosen[d.id]
  BY <1>b DEF AlertsInv, ScopeRespected
<1>8. /\ pc' \in AtRule /\ pc \in AtRule \cup {"rules"} /\ due' \subseteq due
      /\ cur' \in DueRec /\ asOf' \subseteq Item /\ sentOk' \in BOOLEAN
      /\ told' \in [Rule -> SUBSET Item]
      /\ faults' \in Nat /\ faults' >= faults /\ early' \in Nat
      /\ rule' \in [Rule -> RuleRow] /\ fresh' \in [Rule -> BOOLEAN]
      /\ UNCHANGED <<item, rule, fresh, chosen, firing>>
  BY <1>1, <1>2, <1>a, <1>b DEF TypeOK, AtRule
<1>9. \A r \in Rule : told[r] \subseteq told'[r] /\ told'[r] = told[r]
  BY <1>1
<1> QED
  BY <1>1, <1>3, <1>4, <1>5, <1>6, <1>7, <1>8, <1>9, <1>b, StaysAt

\* conditionMet, met or not: what can be counted is found, unless the rule has
\* seen it before.
LEMMA Counts ==
  ASSUME AlertsInv, CountItems \/ \E met \in BOOLEAN : CheckCondition(met)
  PROVE  AlertsInv'
<1>a. TypeOK /\ WorkSound /\ DueSound /\ ScopeRespected
  BY DEF AlertsInv
<1>b. pc = "count" /\ UNCHANGED <<item, rule, fresh, firing, chosen, told, excused, late, early, faults>>
  BY DEF CountItems, CheckCondition, env, history
<1>c. /\ cur \in DueRec /\ cur.id \in Rule /\ ReadSound(cur)
      /\ ~(rule[cur.id].marked /\ fresh[cur.id]) /\ asOf \subseteq Item
      /\ \A d \in due : d.id # cur.id
  BY <1>a, <1>b DEF TypeOK, WorkSound, DueSound, AtRule, DueRec
<1> DEFINE items == (Countable \cap Wanted(cur.trigger, cur.projects)) \ cur.since
<1>1. CASE NextRule
  <2>1. UNCHANGED <<item, rule, fresh, history, firing>> /\ faults' \in Nat /\ faults' >= faults
    BY <1>a, <1>b DEF history, TypeOK
  <2> QED
    BY <1>1, <1>b, <2>1, GoesOn DEF AtRule
<1>2. CASE /\ pc' = "deliver" /\ found' \in {items, {}} /\ UNCHANGED <<due, retries, cur, slot, asOf, sentOk>>
           /\ items \subseteq found'
  <2>1. \A i \in items : i \in Item /\ Of[i] \in chosen[cur.id]
    BY <1>c, WantedInScope DEF ReadSound
  <2>2. ASSUME rule[cur.id].state # "deleted", NEW i \in asOf'
        PROVE  Place(i)'
    <3>1. Place(i) /\ i \in Item /\ cur' = cur
      BY <1>2, <1>a, <1>b, <1>c, <2>2 DEF WorkSound, AtRule
    <3>2. Covered(cur.id, i) \/ i \in items
      <4>1. i \in cur.since => Covered(cur.id, i)
        BY <1>c, <2>2 DEF ReadSound, AllCovered
      <4> QED
        BY <1>b, <3>1, <4>1 DEF Place
    <3>3. Covered(cur.id, i) => Covered(cur.id, i)'
      BY <1>b, <3>1 DEF Covered
    <3> QED
      BY <1>2, <3>1, <3>2, <3>3 DEF Place
  <2> HIDE DEF items
  <2>3. /\ pc' \in AtRule /\ pc \in AtRule \cup {"rules"} /\ due' \subseteq due
        /\ cur' = cur /\ cur' \in DueRec /\ asOf' \subseteq Item /\ sentOk' \in BOOLEAN
        /\ found' \subseteq Item /\ (pc' \notin {"deliver", "log"} => found' = {})
        /\ told' \in [Rule -> SUBSET Item] /\ excused' \in [Rule -> SUBSET Item]
        /\ late' \in [Rule -> SUBSET Item]
        /\ faults' \in Nat /\ faults' >= faults /\ early' \in Nat
        /\ rule' \in [Rule -> RuleRow] /\ fresh' \in [Rule -> BOOLEAN]
        /\ UNCHANGED <<item, rule, fresh, chosen, firing>>
    BY <1>2, <1>a, <1>b, <1>c, <2>1 DEF TypeOK, AtRule
  <2>4. \A i \in told'[cur'.id] : Of[i] \in chosen[cur'.id]
    BY <1>a, <1>b, <1>c, <2>3 DEF ScopeRespected
  <2>5. \A i \in found' : Of[i] \in chosen[cur'.id]
    BY <1>2, <2>1, <2>3
  <2>6. \A d \in due' : d.id # cur'.id
    BY <1>c, <2>3
  <2>7. \A r \in Rule : /\ told[r] \subseteq told'[r] /\ excused[r] \subseteq excused'[r]
                        /\ late[r] \subseteq late'[r] /\ told'[r] = told[r]
    BY <1>b
  <2>8. rule[cur'.id].state # "deleted" => \A i \in asOf' : Place(i)'
    BY <2>2, <2>3
  <2>9. ReadSound(cur') /\ ~(rule'[cur'.id].marked /\ fresh'[cur'.id])
    BY <1>c, <2>3
  <2> QED
    BY <2>3, <2>4, <2>5, <2>6, <2>7, <2>8, <2>9, StaysAt
<1>3. CASE CountItems
  <2>1. CASE items # {}
    <3>1. pc' = "deliver" /\ found' = items /\ UNCHANGED <<due, retries, cur, slot, asOf, sentOk>>
      BY <1>3, <2>1 DEF CountItems
    <3> HIDE DEF items
    <3> QED
      BY <1>2, <3>1
  <2>2. CASE items = {}
    <3>1. NextRule
      BY <1>3, <2>2 DEF CountItems
    <3> QED
      BY <1>1, <3>1
  <2> QED
    BY <2>1, <2>2
<1>4. ASSUME NEW met \in BOOLEAN, CheckCondition(met)
      PROVE  AlertsInv'
  <2>1. items = {}
    <3>1. cur.trigger \in Conditions
      BY <1>4 DEF CheckCondition
    <3> QED
      BY <3>1, ConditionsSeekNothing
  <2>2. found = {}
    BY <1>a, <1>b DEF TypeOK
  <2> HIDE DEF items
  <2>3. CASE met
    BY <1>2, <1>4, <2>1, <2>2, <2>3 DEF CheckCondition
  <2>4. CASE ~met
    BY <1>1, <1>4, <2>4 DEF CheckCondition
  <2> QED
    BY <2>3, <2>4
<1> QED
  BY <1>3, <1>4

\* The delivery: what a payload shows beyond what was counted is in the scope
\* of the rule as well.
LEMMA Delivers ==
  ASSUME AlertsInv, NEW ok \in BOOLEAN, Deliver(ok)
  PROVE  AlertsInv'
<1>a. TypeOK /\ WorkSound /\ DueSound /\ ScopeRespected
  BY DEF AlertsInv
<1>b. /\ pc = "deliver" /\ pc' = "log" /\ sentOk' = ok
      /\ found' = found \cup enrichPayload
      /\ told' = IF ok THEN [told EXCEPT ![cur.id] = @ \cup found'] ELSE told
      /\ fresh' = [fresh EXCEPT ![cur.id] = TRUE]
      /\ rule' = [rule EXCEPT ![cur.id].marked = FALSE]
      /\ UNCHANGED <<item, firing, due, cur, asOf, faults, chosen, excused, late>>
  BY DEF Deliver
<1>c. /\ cur \in DueRec /\ cur.id \in Rule /\ ReadSound(cur) /\ asOf \subseteq Item
      /\ \A d \in due : d.id # cur.id
      /\ \A i \in found : i \in Item /\ Of[i] \in chosen[cur.id]
  BY <1>a, <1>b DEF TypeOK, WorkSound, DueSound, AtRule, DueRec
<1>1. \A i \in found' : i \in Item /\ Of[i] \in chosen[cur.id]
  <2>1. \A i \in enrichPayload : i \in Item /\ Of[i] \in chosen[cur.id]
    BY <1>c, WantedInScope DEF ReadSound, enrichPayload
  <2> QED
    BY <1>b, <1>c, <2>1
<1>2. /\ told' \in [Rule -> SUBSET Item]
      /\ \A r \in Rule : /\ told[r] \subseteq told'[r]
                         /\ r # cur.id => told'[r] = told[r]
                         /\ ok /\ r = cur.id => found' \subseteq told'[r]
      /\ \A i \in told'[cur.id] : i \in told[cur.id] \cup found'
  <2>1. found' \subseteq Item /\ told \in [Rule -> SUBSET Item]
    BY <1>1, <1>a DEF TypeOK
  <2>2. CASE ok
    BY <1>b, <1>c, <2>1, <2>2
  <2>3. CASE ~ok
    BY <1>b, <1>c, <2>1, <2>3
  <2> QED
    BY <2>2, <2>3
<1>3. early' \in Nat
  BY <1>a DEF Deliver, TypeOK
<1>4. /\ fresh' \in [Rule -> BOOLEAN] /\ rule' \in [Rule -> RuleRow]
      /\ \A r \in Rule :
           /\ rule'[r].state = rule[r].state /\ rule'[r].since = rule[r].since
           /\ rule'[r].projects = rule[r].projects /\ rule'[r].global = rule[r].global
           /\ r # cur.id => rule'[r].marked = rule[r].marked /\ fresh'[r] = fresh[r]
  <2>1. rule[cur.id] \in RuleRow /\ rule \in [Rule -> RuleRow] /\ fresh \in [Rule -> BOOLEAN]
    BY <1>a, <1>c DEF TypeOK
  <2> DEFINE row == [rule[cur.id] EXCEPT !.marked = FALSE]
  <2>2. /\ row \in RuleRow /\ row.state = rule[cur.id].state /\ row.since = rule[cur.id].since
        /\ row.projects = rule[cur.id].projects /\ row.global = rule[cur.id].global
    BY <2>1 DEF RuleRow
  <2>3. rule' = [rule EXCEPT ![cur.id] = row]
    BY <1>b, <2>1
  <2> HIDE DEF row
  <2> QED
    BY <1>b, <1>c, <2>1, <2>2, <2>3
<1>5. ASSUME rule[cur.id].state # "deleted", NEW i \in asOf'
      PROVE  Place(i)'
  <2>1. Place(i) /\ i \in Item /\ cur' = cur
    BY <1>5, <1>a, <1>b, <1>c DEF WorkSound, AtRule
  <2>2. CASE Covered(cur.id, i)
    <3>1. Covered(cur.id, i)'
      BY <1>2, <1>b, <1>c, <2>1, <2>2 DEF Covered
    <3> QED
      BY <2>1, <3>1 DEF Place
  <2>3. CASE i \in found
    <3>1. i \in found'
      BY <1>b, <2>3
    <3>2. ok => Covered(cur.id, i)'
      BY <1>2, <1>c, <2>1, <3>1 DEF Covered
    <3> QED
      BY <1>b, <2>1, <3>1, <3>2 DEF Place
  <2> QED
    BY <1>b, <2>1, <2>2, <2>3 DEF Place
<1>6. \A i \in told'[cur.id] : Of[i] \in chosen[cur.id]
  BY <1>1, <1>2, <1>a, <1>c DEF ScopeRespected
<1>7. /\ pc' \in AtRule /\ pc \in AtRule \cup {"rules"} /\ due' \subseteq due
      /\ cur' = cur /\ asOf' \subseteq Item /\ sentOk' \in BOOLEAN
      /\ excused' \in [Rule -> SUBSET Item] /\ late' \in [Rule -> SUBSET Item]
      /\ faults' \in Nat /\ faults' >= faults
      /\ UNCHANGED <<item, chosen, firing>>
      /\ pc' \notin {"count", "deliver"}
      /\ (pc' \notin {"deliver", "log"} => found' = {})
  BY <1>a, <1>b, <1>c DEF TypeOK, AtRule
<1>8. found' \subseteq Item
  BY <1>1
<1>9. \A r \in Rule : excused[r] \subseteq excused'[r] /\ late[r] \subseteq late'[r]
  BY <1>b
<1>10. \A d \in due' : d.id # cur'.id
  BY <1>b, <1>c
<1>11. cur' \in DueRec /\ ReadSound(cur')
  BY <1>7, <1>c
<1>12. rule[cur'.id].state # "deleted" => \A i \in asOf' : Place(i)'
  BY <1>5, <1>7
<1>13. \A i \in found' : Of[i] \in chosen[cur'.id]
  BY <1>1, <1>7
<1>14. /\ \A i \in told'[cur'.id] : Of[i] \in chosen[cur'.id]
       /\ \A r \in Rule : told[r] \subseteq told'[r] /\ (r # cur'.id => told'[r] = told[r])
       /\ \A r \in Rule :
            /\ rule'[r].state = rule[r].state /\ rule'[r].since = rule[r].since
            /\ rule'[r].projects = rule[r].projects /\ rule'[r].global = rule[r].global
            /\ r # cur'.id => rule'[r].marked = rule[r].marked /\ fresh'[r] = fresh[r]
  BY <1>2, <1>4, <1>6, <1>7
<1> QED
  BY <1>2, <1>3, <1>4, <1>7, <1>8, <1>9, <1>10, <1>11, <1>12, <1>13, <1>14, StaysAt

\* logFiring, done or failed: a delivery that failed is recorded and will be
\* retried, or the history says that it could not be.
LEMMA Logs ==
  ASSUME AlertsInv, LogFiring \/ LogFails
  PROVE  AlertsInv'
<1>a. TypeOK /\ WorkSound /\ DueSound /\ ScopeRespected /\ RetriesBounded
  BY DEF AlertsInv
<1>b. /\ pc = "log" /\ pc' = "mark" /\ found' = {}
      /\ UNCHANGED <<item, rule, fresh, due, cur, asOf, sentOk, chosen, late, early, slot>>
  BY DEF LogFiring, LogFails, env
<1>c. /\ cur \in DueRec /\ cur.id \in Rule /\ ReadSound(cur) /\ asOf \subseteq Item
      /\ \A d \in due : d.id # cur.id
      /\ found \subseteq Item /\ \A i \in found : Of[i] \in chosen[cur.id]
  BY <1>a, <1>b DEF TypeOK, WorkSound, DueSound, AtRule, DueRec
<1>d. faults' \in Nat /\ faults' >= faults
  BY <1>a DEF LogFiring, LogFails, Fault, TypeOK
<1>1. /\ told' \in [Rule -> SUBSET Item] /\ excused' \in [Rule -> SUBSET Item]
      /\ \A r \in Rule : told[r] \subseteq told'[r] /\ excused[r] \subseteq excused'[r]
      /\ \A r \in Rule : r # cur.id => told'[r] = told[r]
      /\ \A i \in told'[cur.id] : i \in told[cur.id] \cup found
      /\ \/ sentOk \/ rule[cur.id].state = "deleted"
         \/ found \subseteq told'[cur.id] \cup excused'[cur.id]
  <2>1. told \in [Rule -> SUBSET Item] /\ excused \in [Rule -> SUBSET Item]
    BY <1>a DEF TypeOK
  <2>2. CASE told' = told /\ excused' = excused /\ (sentOk \/ rule[cur.id].state = "deleted")
    BY <2>1, <2>2
  <2>3. CASE told' = [told EXCEPT ![cur.id] = @ \cup found] /\ excused' = excused
    BY <1>c, <2>1, <2>3
  <2>4. CASE told' = told /\ excused' = [excused EXCEPT ![cur.id] = @ \cup found]
    BY <1>c, <2>1, <2>4
  <2>5. CASE LogFiring
    <3>1. excused' = excused
      BY <2>5 DEF LogFiring
    <3> QED
      BY <2>2, <2>3, <2>5, <3>1 DEF LogFiring
  <2>6. CASE LogFails
    <3>1. told' = told
      BY <2>6 DEF LogFails
    <3> QED
      BY <2>2, <2>4, <2>6, <3>1 DEF LogFails
  <2> QED
    BY <2>5, <2>6
<1>2. firing' = firing \/ (firing' \in [Slot -> FiringRow] /\ RetriesBounded')
  <2> DEFINE f == Min(Free \ retries)
             row == NewFiring(cur.id)
  <2>1. firing' = firing \/ (firing' = [firing EXCEPT ![f] = row] /\ faults' = faults)
    BY DEF LogFiring, LogFails
  <2>2. row \in FiringRow /\ row.sent = 1 /\ row.attempt = 1
    BY <1>c, NewFirings
  <2> HIDE DEF f, row
  <2>3. faults \in Nat /\ pc # "record" /\ pc' # "record"
    BY <1>a, <1>b DEF TypeOK
  <2>4. row.sent <= row.attempt + faults' + (IF pc' = "record" /\ slot' = f THEN 1 ELSE 0)
    <3>1. (IF pc' = "record" /\ slot' = f THEN 1 ELSE 0) = 0
      BY <2>3
    <3>2. row.sent = 1 /\ row.attempt = 1
      BY <2>2
    <3>3. faults' \in Nat
      BY <1>d
    <3>4. \A n \in Nat : 1 <= 1 + n + 0
      OBVIOUS
    <3> QED
      BY <3>1, <3>2, <3>3, <3>4
  <2> QED
    BY <1>a, <1>d, <2>1, <2>2, <2>3, <2>4, FiringReplaced
<1>3. ASSUME rule[cur.id].state # "deleted", NEW i \in asOf
      PROVE  Place(i)'
  <2>1. Place(i) /\ i \in Item
    BY <1>3, <1>a, <1>b, <1>c DEF WorkSound, AtRule
  <2>2. Covered(cur.id, i) \/ (i \in found /\ ~sentOk)
    BY <1>b, <2>1 DEF Place
  <2>3. Covered(cur.id, i) => Covered(cur.id, i)'
    BY <1>1, <1>b, <1>c DEF Covered
  <2>4. i \in found /\ ~sentOk => Covered(cur.id, i)'
    BY <1>1, <1>3, <1>b DEF Covered
  <2> QED
    BY <2>2, <2>3, <2>4 DEF Place
<1>4. \A i \in told'[cur.id] : Of[i] \in chosen[cur.id]
  BY <1>1, <1>a, <1>c DEF ScopeRespected
<1>5. /\ pc' \in AtRule /\ pc \in AtRule \cup {"rules"} /\ due' \subseteq due
      /\ cur' = cur /\ asOf' = asOf /\ asOf' \subseteq Item /\ sentOk' \in BOOLEAN
      /\ late' \in [Rule -> SUBSET Item] /\ early' \in Nat
      /\ rule' \in [Rule -> RuleRow] /\ fresh' \in [Rule -> BOOLEAN]
      /\ UNCHANGED <<item, rule, fresh, chosen, late>>
      /\ pc' \notin {"count", "deliver"} /\ found' \subseteq Item
      /\ (pc' \notin {"deliver", "log"} => found' = {})
  BY <1>a, <1>b, <1>c DEF TypeOK, AtRule
<1>6. /\ cur' \in DueRec /\ ReadSound(cur') /\ \A d \in due' : d.id # cur'.id
      /\ \A i \in told'[cur'.id] : Of[i] \in chosen[cur'.id]
      /\ \A i \in found' : Of[i] \in chosen[cur'.id]
      /\ rule[cur'.id].state # "deleted" => \A i \in asOf' : Place(i)'
      /\ \A r \in Rule : told[r] \subseteq told'[r] /\ excused[r] \subseteq excused'[r]
                         /\ late[r] \subseteq late'[r] /\ (r # cur'.id => told'[r] = told[r])
  BY <1>1, <1>3, <1>4, <1>5, <1>b, <1>c
<1> QED
  BY <1>1, <1>2, <1>5, <1>6, <1>d, StaysAt

\* MarkAlertFired: the rule looks from the clock that was read before the count
\* on, and everything up to it is accounted for by now.
LEMMA Marks ==
  ASSUME AlertsInv, MarkFired
  PROVE  AlertsInv'
<1>a. /\ TypeOK /\ WorkSound /\ DueSound /\ NothingEscapes /\ ScopeRespected /\ RetriesBounded
      /\ \A r \in Rule : RowSound(r)
  BY DEF AlertsInv
<1>b. /\ pc = "mark" /\ NextRule /\ UNCHANGED <<item, fresh, firing, faults, chosen, told, excused, late, early>>
      /\ rule' = IF rule[cur.id].state = "deleted" THEN rule
                 ELSE [rule EXCEPT ![cur.id].since = asOf, ![cur.id].marked = TRUE]
  BY DEF MarkFired, FiredAt, env, history
<1>c. cur \in DueRec /\ cur.id \in Rule /\ ReadSound(cur) /\ asOf \subseteq Item
      /\ \A d \in due : d.id # cur.id
  BY <1>a, <1>b DEF TypeOK, WorkSound, DueSound, AtRule, DueRec
<1>1. CASE rule[cur.id].state = "deleted"
  <2>1. UNCHANGED <<item, rule, fresh, history, firing>> /\ faults' \in Nat /\ faults' >= faults
    BY <1>1, <1>a, <1>b DEF history, TypeOK
  <2> QED
    BY <1>b, <2>1, GoesOn DEF AtRule
<1>2. CASE rule[cur.id].state # "deleted"
  <2> DEFINE row == [rule[cur.id] EXCEPT !.since = asOf, !.marked = TRUE]
  <2>1. rule[cur.id] \in RuleRow /\ rule \in [Rule -> RuleRow]
    BY <1>a, <1>c DEF TypeOK
  <2>2. /\ row \in RuleRow /\ row.state = rule[cur.id].state /\ row.since = asOf
        /\ row.projects = rule[cur.id].projects /\ row.global = rule[cur.id].global
    BY <1>c, <2>1 DEF RuleRow
  <2>3. rule' = [rule EXCEPT ![cur.id] = row]
    BY <1>2, <1>b, <2>1
  <2> HIDE DEF row
  <2>4. rule' \in [Rule -> RuleRow] /\ \A r \in Rule : rule'[r] = IF r = cur.id THEN row ELSE rule[r]
    BY <1>c, <2>1, <2>2, <2>3
  <2>5. pc' = "rules" /\ due' = due /\ asOf' = {} /\ found' = {} /\ sentOk' = FALSE /\ pc' \notin AtRule
    BY <1>b DEF NextRule, AtRule
  <2>6. TypeOK'
    BY <1>a, <1>b, <2>4, <2>5 DEF TypeOK, AtRule
  <2>7. DueSound'
    <3>1. \A d \in due : d.id \in Rule /\ d.id # cur.id
      BY <1>a, <1>c DEF TypeOK, DueRec
    <3>2. \A d \in due : rule'[d.id] = rule[d.id]
      BY <2>4, <3>1
    <3> QED
      BY <1>a, <1>b, <2>5, <3>2 DEF DueSound, ReadSound, AllCovered, Covered, Scope
  <2>8. WorkSound'
    BY <2>5 DEF WorkSound
  <2>9. ASSUME NEW r \in Rule PROVE RowSound(r)'
    <3>1. RowSound(r) /\ Scope(rule[r].projects)' = Scope(rule'[r].projects)
      BY <1>a DEF Scope
    <3>2. CASE r = cur.id
      <4>1. rule[r].state \notin {"absent", "deleted"}
        BY <1>2, <1>c, <3>2 DEF ReadSound
      <4> QED
        BY <1>b, <2>2, <2>4, <3>1, <3>2, <4>1 DEF RowSound, ruleHasScope
    <3>3. CASE r # cur.id
      BY <1>b, <2>4, <3>1, <3>3 DEF RowSound, ruleHasScope
    <3> QED
      BY <3>2, <3>3
  <2>10. NothingEscapes'
    <3> SUFFICES ASSUME NEW r \in Rule, NEW i \in rule'[r].since
                 PROVE  item[i] = "gone" \/ i \in told[r] \cup excused[r] \cup late[r]
      BY <1>b DEF NothingEscapes
    <3>1. CASE r = cur.id
      <4>1. i \in asOf
        BY <2>2, <2>4, <3>1
      <4>2. Place(i)
        BY <1>2, <1>a, <1>b, <4>1 DEF WorkSound, AtRule
      <4> QED
        BY <1>b, <3>1, <4>2 DEF Place, Covered
    <3>2. CASE r # cur.id
      BY <1>a, <2>4, <3>2 DEF NothingEscapes
    <3> QED
      BY <3>1, <3>2
  <2>11. ScopeRespected'
    BY <1>a, <1>b DEF ScopeRespected
  <2>12. RetriesBounded'
    <3>1. faults' \in Nat /\ faults' >= faults /\ pc # "record" /\ pc' # "record" /\ firing' = firing
      BY <1>a, <1>b, <2>5 DEF TypeOK
    <3> QED
      BY <1>a, <3>1, FiringsKept
  <2> QED
    BY <2>6, <2>7, <2>8, <2>9, <2>10, <2>11, <2>12 DEF AlertsInv
<1> QED
  BY <1>1, <1>2

-----------------------------------------------------------------------------
(* The theorems. *)

\* At the start there are no rules, no items and nothing to deliver.
LEMMA AlertsInvInit == Init => AlertsInv
<1> SUFFICES ASSUME Init PROVE AlertsInv
  OBVIOUS
<1>1. NoRule \in RuleRow /\ NoRule.state = "absent" /\ NoRule.since = {} /\ NoRule.projects = {}
      /\ NoRule.global
  BY DEF NoRule, RuleRow, States, validTriggers, SoughtOfIssues
<1>2. rule \in [Rule -> RuleRow] /\ \A r \in Rule : rule[r] = NoRule
  BY <1>1 DEF Init
<1>3. firing \in [Slot -> FiringRow] /\ \A f \in Slot : ~firing[f].used
  BY NewFirings DEF Init
<1>4. /\ item = [i \in Item |-> "none"] /\ fresh = [r \in Rule |-> FALSE] /\ pc = "idle" /\ due = {}
      /\ asOf = {} /\ found = {} /\ sentOk = FALSE /\ faults = 0 /\ early = 0
      /\ chosen = [r \in Rule |-> {}] /\ told = [r \in Rule |-> {}]
      /\ excused = [r \in Rule |-> {}] /\ late = [r \in Rule |-> {}]
  BY DEF Init
<1>5. TypeOK
  BY <1>2, <1>3, <1>4 DEF TypeOK, AtRule
<1>6. DueSound /\ WorkSound
  BY <1>4 DEF DueSound, WorkSound, AtRule
<1>7. \A r \in Rule : RowSound(r)
  BY <1>1, <1>2, <1>4 DEF RowSound
<1>8. NothingEscapes /\ ScopeRespected /\ RetriesBounded
  BY <1>1, <1>2, <1>3, <1>4 DEF NothingEscapes, ScopeRespected, RetriesBounded
<1> QED
  BY <1>5, <1>6, <1>7, <1>8 DEF AlertsInv

\* Every step keeps the invariant.
LEMMA AlertsInvStep == AlertsInv /\ [Next]_vars => AlertsInv'
<1> SUFFICES ASSUME AlertsInv, [Next]_vars PROVE AlertsInv'
  OBVIOUS
<1>1. CASE UNCHANGED vars
  BY <1>1 DEF vars, AlertsInv, TypeOK, DueSound, ReadSound, AllCovered, WorkSound, Place, Covered,
              Countable, Wanted, Scope, RowSound, ruleHasScope, NothingEscapes, ScopeRespected,
              RetriesBounded
<1>2. CASE Evaluate
  BY <1>2, Ticks, Breaks, Counts, Logs, Marks, ReadsClock, Delivers DEF Evaluate
<1>3. CASE Retry
  BY <1>3, Breaks, Retries DEF Retry
<1>4. CASE Failures
  BY <1>4, Breaks, Logs, Retries DEF Failures
<1>5. CASE Environment
  BY <1>5, ItemSteps, TimePasses, ProjectGoes, ResolvedNotice, RuleUpdated, RuleDeleted, RuleCreated
  DEF Environment
<1> QED
  BY <1>1, <1>2, <1>3, <1>4, <1>5 DEF Next

\* What the evaluator holds stays right while rules, projects and items change
\* under it (internal/alerts/evaluator.go).
THEOREM AlertsInvHolds == Spec => []AlertsInv
BY AlertsInvInit, AlertsInvStep, PTL DEF Spec

\* No alert is swallowed: an item stamped up to last_fired_at was carried by a
\* delivery or a recorded firing, or is one of the exceptions the property
\* names (the clock of evaluateRule, fire).
THEOREM NothingEscapesHolds == Spec => []NothingEscapes
<1>1. AlertsInv => NothingEscapes
  BY DEF AlertsInv
<1> QED
  BY <1>1, AlertsInvHolds, PTL

\* A rule tells only of the projects chosen for it, also while these are being
\* deleted and when none is left (ruleHasScope).
THEOREM ScopeRespectedHolds == Spec => []ScopeRespected
<1>1. AlertsInv => ScopeRespected
  BY DEF AlertsInv
<1> QED
  BY <1>1, AlertsInvHolds, PTL

-----------------------------------------------------------------------------
(* Faults pay for early deliveries. *)

\* The rules in excess are rules, so there are finitely many.
LEMMA ExcessFinite ==
  /\ IsFiniteSet(Excess) /\ Cardinality(Excess) \in Nat
  /\ IsFiniteSet(Excess') /\ Cardinality(Excess') \in Nat
<1>1. IsFiniteSet(Rule) /\ Excess \subseteq Rule /\ Excess' \subseteq Rule
  BY AlertsAssumption DEF Excess
<1>2. IsFiniteSet(Excess) /\ IsFiniteSet(Excess')
  BY <1>1, FS_Subset
<1> QED
  BY <1>2, FS_CardinalityType

\* Nothing is delivered early and no rule comes into excess.
LEMMA ExcessShrinks ==
  ASSUME TypeOK, FaultsPayForEarly, Excess' \subseteq Excess, early' = early,
         faults' \in Nat, faults' >= faults
  PROVE  FaultsPayForEarly'
<1>1. Cardinality(Excess') <= Cardinality(Excess)
  BY ExcessFinite, FS_Subset
<1>2. early \in Nat /\ faults \in Nat /\ early + Cardinality(Excess) <= faults
  BY DEF TypeOK, FaultsPayForEarly
<1> HIDE DEF Excess
<1>3. early' + Cardinality(Excess') <= faults'
  BY <1>1, <1>2, ExcessFinite
<1> QED
  BY <1>3 DEF FaultsPayForEarly

\* A fault brings one rule into excess at most.
LEMMA ExcessByFault ==
  ASSUME TypeOK, FaultsPayForEarly, NEW x, Excess' \subseteq Excess \cup {x}, early' = early,
         faults' = faults + 1
  PROVE  FaultsPayForEarly'
<1> HIDE DEF Excess
<1>1. /\ IsFiniteSet(Excess \cup {x})
      /\ Cardinality(Excess \cup {x}) = IF x \in Excess THEN Cardinality(Excess)
                                        ELSE Cardinality(Excess) + 1
  BY ExcessFinite, FS_AddElement
<1>2. Cardinality(Excess') <= Cardinality(Excess \cup {x})
  BY <1>1, FS_Subset
<1>3. early \in Nat /\ faults \in Nat /\ early + Cardinality(Excess) <= faults
  BY DEF TypeOK, FaultsPayForEarly
<1>4. Cardinality(Excess) \in Nat /\ Cardinality(Excess') \in Nat
  BY ExcessFinite
<1>5. Cardinality(Excess') <= Cardinality(Excess) + 1
  BY <1>1, <1>2, <1>4
<1>6. early' + Cardinality(Excess') <= faults'
  BY <1>3, <1>4, <1>5
<1> QED
  BY <1>6 DEF FaultsPayForEarly

\* A delivery within the cooldown uses up the excess of its rule.
LEMMA DeliveryPaid ==
  ASSUME AlertsInv, FaultsPayForEarly, NEW ok \in BOOLEAN, Deliver(ok)
  PROVE  FaultsPayForEarly'
<1>a. TypeOK /\ WorkSound
  BY DEF AlertsInv
<1>b. /\ pc = "deliver" /\ pc' = "log" /\ cur.id \in Rule
      /\ fresh' = [fresh EXCEPT ![cur.id] = TRUE]
      /\ rule' = [rule EXCEPT ![cur.id].marked = FALSE]
      /\ UNCHANGED <<due, cur, faults>>
  BY <1>a DEF Deliver, TypeOK, AtRule, DueRec
<1>c. early \in Nat /\ faults \in Nat /\ fresh[cur.id] \in BOOLEAN
  BY <1>a, <1>b DEF TypeOK
<1>1. Excess' \subseteq Excess \ {cur.id}
  <2> SUFFICES ASSUME NEW r \in Excess' PROVE r \in Excess /\ r # cur.id
    OBVIOUS
  <2>1. /\ r \in Rule /\ fresh'[r] /\ ~rule'[r].marked /\ r # cur.id
        /\ rule'[r].state # "deleted" \/ Read(r)'
    BY <1>b DEF Excess
  <2>2. fresh'[r] = fresh[r] /\ rule'[r] = rule[r]
    BY <1>a, <1>b, <2>1 DEF TypeOK
  <2>3. Read(r)' => Read(r)
    BY <1>b DEF Read
  <2> QED
    BY <1>b, <2>1, <2>2, <2>3 DEF Excess
<1>2. CASE fresh[cur.id]
  <2>1. cur.id \in Excess
    BY <1>2, <1>a, <1>b DEF Excess, Read, WorkSound, AtRule
  <2>2. early' \in Nat /\ early' <= early + 1
    BY <1>2, <1>c DEF Deliver
  <2> HIDE DEF Excess
  <2>3. Cardinality(Excess \ {cur.id}) = Cardinality(Excess) - 1 /\ IsFiniteSet(Excess \ {cur.id})
    BY <2>1, ExcessFinite, FS_RemoveElement
  <2>4. Cardinality(Excess') <= Cardinality(Excess \ {cur.id})
    BY <1>1, <2>3, FS_Subset
  <2>5. Cardinality(Excess) \in Nat /\ Cardinality(Excess') \in Nat
    BY ExcessFinite
  <2>6. faults' = faults /\ early + Cardinality(Excess) <= faults
    BY <1>b DEF FaultsPayForEarly
  <2>7. Cardinality(Excess') <= Cardinality(Excess) - 1
    BY <2>3, <2>4
  <2>8. early' + Cardinality(Excess') <= faults'
    BY <1>c, <2>2, <2>5, <2>6, <2>7
  <2> QED
    BY <2>8 DEF FaultsPayForEarly
<1>3. CASE ~fresh[cur.id]
  <2>1. early' = early
    BY <1>3 DEF Deliver
  <2>2. Excess' \subseteq Excess
    BY <1>1
  <2>3. faults' \in Nat /\ faults' >= faults
    BY <1>b, <1>c
  <2> QED
    BY <1>a, <2>1, <2>2, <2>3, ExcessShrinks
<1> QED
  BY <1>2, <1>3

\* The other steps of the evaluator that write nothing about a rule: a rule
\* comes into excess only when a fault ends the work on it unmarked.
LEMMA ReadsPaid ==
  ASSUME AlertsInv, FaultsPayForEarly,
         UNCHANGED <<rule, fresh, early>>, faults' \in Nat, faults' >= faults,
         \A r \in Rule : Read(r)' => Read(r) \/ rule[r].state # "deleted",
         pc \in {"log", "mark"} => \/ pc' \in {"log", "mark"} /\ cur' = cur
                                   \/ faults' = faults + 1
  PROVE  FaultsPayForEarly'
<1>a. TypeOK
  BY DEF AlertsInv
<1>1. Excess' \subseteq Excess \cup {cur.id}
  BY DEF Excess
<1>2. CASE faults' = faults + 1
  BY <1>1, <1>2, <1>a, ExcessByFault
<1>3. CASE pc \in {"log", "mark"} => pc' \in {"log", "mark"} /\ cur' = cur
  <2>1. Excess' \subseteq Excess
    BY <1>3 DEF Excess
  <2> QED
    BY <1>a, <2>1, ExcessShrinks
<1> QED
  BY <1>2, <1>3

\* The steps of the evaluator and its retries.
LEMMA EvaluatorPaid ==
  ASSUME AlertsInv, FaultsPayForEarly, Evaluate \/ Retry \/ Failures
  PROVE  FaultsPayForEarly'
<1>a. TypeOK /\ DueSound /\ faults \in Nat
  BY DEF AlertsInv, TypeOK
<1>b. Fault => faults' = faults + 1
  BY DEF Fault
<1>1. CASE Tick
  <2>1. UNCHANGED <<rule, fresh, early>> /\ pc = "idle" /\ pc' = "rules" /\ faults' = faults
    BY <1>1 DEF Tick, env, history
  <2>2. \A r \in Rule : Read(r)' => rule[r].state # "deleted"
    BY <1>1, <2>1 DEF Tick, Read, IsDue
  <2>3. faults' \in Nat /\ faults' >= faults /\ pc \notin {"log", "mark"}
    BY <1>a, <2>1
  <2> QED
    BY <2>1, <2>2, <2>3, ReadsPaid
<1>2. ASSUME NEW d \in due, ReadClock(d) PROVE FaultsPayForEarly'
  <2>1. UNCHANGED <<rule, fresh, early, faults>> /\ pc = "rules" /\ pc' = "count"
        /\ cur' = d /\ due' = due \ {d}
    BY <1>2 DEF ReadClock, env
  <2>2. \A r \in Rule : Read(r)' => Read(r)
    BY <2>1 DEF Read
  <2>3. faults' \in Nat /\ faults' >= faults /\ pc \notin {"log", "mark"}
    BY <1>a, <2>1
  <2> QED
    BY <2>1, <2>2, <2>3, ReadsPaid
<1>3. CASE CountItems \/ \E met \in BOOLEAN : CheckCondition(met)
  <2>1. /\ UNCHANGED <<rule, fresh, early, due, faults>> /\ pc = "count"
        /\ pc' = "rules" \/ (pc' = "deliver" /\ cur' = cur)
    BY <1>3 DEF CountItems, CheckCondition, NextRule, env, history
  <2>2. \A r \in Rule : Read(r)' => Read(r)
    BY <2>1 DEF Read
  <2>3. faults' \in Nat /\ faults' >= faults /\ pc \notin {"log", "mark"}
    BY <1>a, <2>1
  <2> QED
    BY <2>1, <2>2, <2>3, ReadsPaid
<1>4. CASE LogFiring \/ LogFails
  <2>1. /\ UNCHANGED <<rule, fresh, early, due>> /\ pc = "log" /\ pc' = "mark" /\ cur' = cur
        /\ faults' = faults \/ faults' = faults + 1
    BY <1>4, <1>b DEF LogFiring, LogFails, env
  <2>2. \A r \in Rule : Read(r)' => Read(r)
    BY <2>1 DEF Read
  <2>3. faults' \in Nat /\ faults' >= faults
    BY <1>a, <2>1
  <2> QED
    BY <2>1, <2>2, <2>3, ReadsPaid
<1>5. CASE CountFails \/ MarkFails \/ EvaluateFails \/ ListRetriesFails \/ Crash
  <2>1. /\ UNCHANGED <<rule, fresh, early>> /\ due' \subseteq due /\ pc' \notin {"count", "deliver"}
        /\ faults' = faults + 1
    BY <1>5, <1>b DEF CountFails, MarkFails, EvaluateFails, ListRetriesFails, Crash, NextRule, env, history
  <2>2. \A r \in Rule : Read(r)' => Read(r)
    BY <2>1 DEF Read
  <2>3. faults' \in Nat /\ faults' >= faults
    BY <1>a, <2>1
  <2> QED
    BY <2>1, <2>2, <2>3, ReadsPaid
<1>6. CASE \/ RulesDone \/ ListRetries \/ RetriesDone \/ RetryRecord
           \/ \E resolved \in BOOLEAN : RetryRecordFails(resolved)
           \/ \E f \in Slot : \/ RetryCancelled(f) \/ RetryLookupFails(f)
                              \/ \E ok \in BOOLEAN : RetryDeliver(f, ok)
  <2>1. /\ UNCHANGED <<rule, fresh, early, due>> /\ pc \in Away /\ pc' \in Away
        /\ faults' = faults \/ faults' = faults + 1
    BY <1>6, <1>b DEF RulesDone, ListRetries, RetriesDone, RetryRecord, RetryRecordFails,
                      RetryCancelled, RetryLookupFails, RetryDeliver, env, history, Away
  <2>2. \A r \in Rule : Read(r)' => Read(r)
    BY <2>1 DEF Read, Away
  <2>3. faults' \in Nat /\ faults' >= faults /\ pc \notin {"log", "mark"}
    BY <1>a, <2>1 DEF Away
  <2> QED
    BY <2>1, <2>2, <2>3, ReadsPaid
<1>7. CASE MarkFired
  <2>1. /\ UNCHANGED <<fresh, early, due, faults>> /\ pc = "mark" /\ pc' = "rules" /\ cur.id \in Rule
        /\ rule' = IF rule[cur.id].state = "deleted" THEN rule
                   ELSE [rule EXCEPT ![cur.id].since = asOf, ![cur.id].marked = TRUE]
    BY <1>7, <1>a DEF MarkFired, FiredAt, NextRule, env, history, TypeOK, AtRule, DueRec
  <2>2. \A d \in due : d.id # cur.id
    BY <1>a, <2>1 DEF DueSound, AtRule
  <2>3. \A r \in Rule : Read(r)' => Read(r) /\ r # cur.id
    BY <2>1, <2>2 DEF Read
  <2>4. rule \in [Rule -> RuleRow]
    BY <1>a DEF TypeOK
  <2>5. \A r \in Rule : r # cur.id => rule'[r] = rule[r]
    BY <2>1, <2>4
  <2>6. rule'[cur.id].state = "deleted" \/ rule'[cur.id].marked
    BY <2>1, <2>4 DEF RuleRow
  <2>7. Excess' \subseteq Excess
    BY <2>1, <2>3, <2>5, <2>6 DEF Excess
  <2>8. faults' \in Nat /\ faults' >= faults /\ early' = early
    BY <1>a, <2>1
  <2> QED
    BY <1>a, <2>7, <2>8, ExcessShrinks
<1> QED
  BY <1>1, <1>2, <1>3, <1>4, <1>5, <1>6, <1>7, DeliveryPaid DEF Evaluate, Retry, Failures

\* The environment: a deleted rule that is still to be evaluated was in excess
\* before if its cooldown runs.
LEMMA EnvironmentPaid ==
  ASSUME AlertsInv, FaultsPayForEarly, Environment
  PROVE  FaultsPayForEarly'
<1>a. /\ TypeOK /\ DueSound /\ WorkSound /\ faults \in Nat
      /\ rule \in [Rule -> RuleRow] /\ fresh \in [Rule -> BOOLEAN]
  BY DEF AlertsInv, TypeOK
<1>1. UNCHANGED <<worker, faults, early>>
  BY DEF Environment, ItemBegins, ItemCommits, ItemRipens, RetryDelayEnds, DeleteProject,
         CooldownEnds, NotifyAutoResolved, handleUpdateAlertRule, handleDeleteAlertRule,
         handleCreateAlertRule, history
<1>2. UNCHANGED <<pc, due, cur>> /\ faults' \in Nat /\ faults' >= faults
  BY <1>1, <1>a DEF worker
<1>3. \A r \in Rule : Read(r)' = Read(r)
  BY <1>2 DEF Read
<1>4. \A r \in Rule : Read(r) => ~(rule[r].marked /\ fresh[r])
  BY <1>a DEF Read, DueSound, WorkSound, AtRule
<1>5. ASSUME NEW r \in Rule, fresh'[r], ~rule'[r].marked
      PROVE  /\ fresh[r]
             /\ \/ ~rule[r].marked /\ (rule'[r].state # "deleted" => rule[r].state # "deleted")
                \/ rule'[r].state = "deleted"
  <2>1. CASE rule' = rule
    <3>1. fresh[r]
      BY <1>5, <1>a, <2>1 DEF Environment, ItemBegins, ItemCommits, ItemRipens, RetryDelayEnds,
         DeleteProject, CooldownEnds, NotifyAutoResolved, handleUpdateAlertRule,
         handleDeleteAlertRule, handleCreateAlertRule, env
    <3> QED
      BY <1>5, <2>1, <3>1
  <2>2. ASSUME NEW p \in Project, DeleteProject(p)
        PROVE  fresh' = fresh /\ rule'[r].marked = rule[r].marked /\ rule'[r].state = rule[r].state
    BY <1>a, <2>2 DEF DeleteProject, RuleRow
  <2>3. ASSUME NEW q \in Rule, handleUpdateAlertRule(q)
        PROVE  /\ fresh' = fresh
               /\ rule'[r] = rule[r] \/ (rule'[r].marked = rule[r].marked /\ rule[r].state # "deleted")
    <3>1. PICK row \in Patched(rule[q]) : UpdateAlertRule(q, row)
      BY <2>3 DEF handleUpdateAlertRule
    <3>2. rule[q].state # "deleted" /\ fresh' = fresh
      BY <2>3 DEF handleUpdateAlertRule
    <3>3. CASE r = q
      <4>1. rule'[r].marked = rule[r].marked
        BY <1>a, <3>1, <3>3 DEF UpdateAlertRule, RuleRow
      <4> QED
        BY <3>2, <3>3, <4>1
    <3>4. CASE r # q
      <4>1. rule'[r] = rule[r]
        BY <1>a, <3>1, <3>4 DEF UpdateAlertRule
      <4> QED
        BY <3>2, <4>1
    <3> QED
      BY <3>3, <3>4
  <2>4. ASSUME NEW q \in Rule, handleDeleteAlertRule(q)
        PROVE  fresh' = fresh /\ (rule'[r].state = "deleted" \/ rule'[r] = rule[r])
    BY <1>a, <2>4 DEF handleDeleteAlertRule, NoRule
  <2>5. ASSUME NEW q \in Rule, NEW t \in Trigger, NEW ps \in ProjectIDs, handleCreateAlertRule(q, t, ps)
        PROVE  fresh' = fresh /\ rule'[r] = rule[r]
    <3>1. fresh' = fresh /\ rule[q].state = "absent" /\ \A x \in Rule : x # q => rule'[x] = rule[x]
      BY <1>a, <2>5 DEF handleCreateAlertRule, CreateAlertRule, env
    <3>2. ~fresh[q]
      BY <3>1 DEF AlertsInv, RowSound
    <3> QED
      BY <1>5, <3>1, <3>2
  <2>6. \/ rule' = rule \/ \E p \in Project : DeleteProject(p)
        \/ \E q \in Rule : \/ handleUpdateAlertRule(q) \/ handleDeleteAlertRule(q)
                           \/ \E t \in Trigger, ps \in ProjectIDs : handleCreateAlertRule(q, t, ps)
    BY DEF Environment, ItemBegins, ItemCommits, ItemRipens, RetryDelayEnds, CooldownEnds,
           NotifyAutoResolved
  <2> QED
    BY <1>5, <2>1, <2>2, <2>3, <2>4, <2>5, <2>6
<1>6. Excess' \subseteq Excess
  <2> SUFFICES ASSUME NEW r \in Excess' PROVE r \in Excess
    OBVIOUS
  <2>1. /\ r \in Rule /\ fresh'[r] /\ ~rule'[r].marked /\ ~(pc \in {"log", "mark"} /\ cur.id = r)
        /\ rule'[r].state # "deleted" \/ Read(r)
    BY <1>2, <1>3 DEF Excess
  <2>2. fresh[r]
    BY <1>5, <2>1
  <2>3. Read(r) => ~rule[r].marked
    BY <1>4, <2>1, <2>2
  <2>4. ~rule[r].marked /\ (rule[r].state # "deleted" \/ Read(r))
    BY <1>5, <2>1, <2>3
  <2> QED
    BY <2>1, <2>2, <2>4 DEF Excess
<1> QED
  BY <1>1, <1>2, <1>6, <1>a, ExcessShrinks

\* Every delivery within a cooldown is paid for by a crash or a failed write,
\* for any number of rules (fire, MarkAlertFired).
THEOREM FaultsPayForEarlyHolds == Spec => []FaultsPayForEarly
<1>1. Init => FaultsPayForEarly
  <2> SUFFICES ASSUME Init PROVE FaultsPayForEarly
    OBVIOUS
  <2>1. Excess = {}
    BY DEF Init, Excess
  <2>2. early = 0 /\ faults = 0
    BY DEF Init
  <2> QED
    BY <2>1, <2>2, FS_EmptySet DEF FaultsPayForEarly
<1>2. AlertsInv /\ FaultsPayForEarly /\ [Next]_vars => FaultsPayForEarly'
  <2>1. ASSUME AlertsInv, FaultsPayForEarly, UNCHANGED vars PROVE FaultsPayForEarly'
    <3>1. Excess' = Excess /\ early' = early /\ faults' = faults
      BY <2>1 DEF vars, Excess, Read
    <3> QED
      BY <2>1, <3>1 DEF FaultsPayForEarly
  <2> QED
    BY <2>1, EvaluatorPaid, EnvironmentPaid DEF Next
<1> QED
  BY <1>1, <1>2, AlertsInvHolds, PTL DEF Spec

\* Nobody is sent more than cooldowns and attempts allow, but for what crashes
\* and failed writes account for (fire, retryFiring).
THEOREM DeliveriesBoundedHolds == Spec => []DeliveriesBounded
<1>1. AlertsInv /\ FaultsPayForEarly => DeliveriesBounded
  <2> SUFFICES ASSUME AlertsInv, FaultsPayForEarly PROVE CooldownRespected
    BY DEF AlertsInv, DeliveriesBounded
  <2>1. early \in Nat /\ faults \in Nat /\ early + Cardinality(Excess) <= faults
    BY DEF AlertsInv, TypeOK, FaultsPayForEarly
  <2> HIDE DEF Excess
  <2> QED
    BY <2>1, ExcessFinite DEF CooldownRespected
<1> QED
  BY <1>1, AlertsInvHolds, FaultsPayForEarlyHolds, PTL
=============================================================================
