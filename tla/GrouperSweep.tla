---------------------------- MODULE GrouperSweep ----------------------------
(***************************************************************************)
(* How groupers find the events to group (internal/issues/grouper.go): a   *)
(* sweep reads the ungrouped events in the order of (received_at, id), in  *)
(* pages, up to a boundary that is frozen when the sweep starts.  A pass   *)
(* is bounded; the cursor carries a sweep over passes.  An event whose     *)
(* grouping fails is passed over, to be met again by the next sweep.       *)
(*                                                                         *)
(* Arrivals never end: the table is a window on an endless stream, and the *)
(* name of an event that left is used again for a new one.  log keeps the  *)
(* order of the ungrouped events and of the ones that left while a cursor  *)
(* or a page still refers to them.                                         *)
(***************************************************************************)
EXTENDS Naturals, Sequences, SequencesExt, FiniteSets

CONSTANTS
  Event,     \* names of the events in the window
  Broken,    \* the events that no attempt can group
  Grouper,   \* the grouper of each instance
  NoEvent,
  PageSize,  \* grouperPageSize
  PassLimit  \* grouperPassLimit

ASSUME SweepAssumption ==
  /\ IsFiniteSet(Event) /\ Broken \subseteq Event /\ NoEvent \notin Event
  /\ PageSize \in Nat \ {0} /\ PassLimit \in Nat \ {0}

VARIABLES
  log,       \* events in the order of (received_at, id)
  buffered,  \* the events of log that are written but not committed
  ungrouped, \* the events of log that are stored with issue_id NULL
  stage,     \* "rest" between passes, "read" before a page, "page" within one
  after,     \* cursor.after: the last event observed in this sweep, or NoEvent
  through,   \* cursor.through; NoEvent when there is no cursor
  page,      \* the rest of the page in work
  full,      \* the page had PageSize events
  observed,  \* stats.Observed
  tried      \* the event whose grouping the last step attempted, or NoEvent

sweepVars == <<log, buffered, ungrouped, stage, after, through, page, full, observed, tried>>

SweepInit ==
  /\ log = <<>> /\ buffered = {} /\ ungrouped = {}
  /\ stage = [g \in Grouper |-> "rest"]
  /\ after = [g \in Grouper |-> NoEvent] /\ through = [g \in Grouper |-> NoEvent]
  /\ page = [g \in Grouper |-> <<>>] /\ full = [g \in Grouper |-> FALSE]
  /\ observed = [g \in Grouper |-> 0]
  /\ tried = NoEvent

Position(e) == IF e = NoEvent THEN 0 ELSE SelectInSeq(log, LAMBDA x : x = e)

-----------------------------------------------------------------------------
(* The window. *)

\* Events that left are forgotten once nothing refers to them.
Forget ==
  LET named == UNION {ToSet(page'[g]) \cup {after'[g], through'[g]} : g \in Grouper}
      keep(e) == e \in buffered' \cup ungrouped' \cup named
  IN  log' = SelectSeq(log, keep)

\* A writer's transaction begins, and with it received_at (now()) is fixed.
WriteBegins(e) ==
  /\ e \notin ToSet(log)
  /\ log' = Append(log, e)
  /\ buffered' = buffered \cup {e}
  /\ tried' = NoEvent
  /\ UNCHANGED <<ungrouped, stage, after, through, page, full, observed>>

\* It ends later, and writers of several instances do not end in the order in
\* which they began.
WriteEnds(e, committed) ==
  /\ e \in buffered
  /\ buffered' = buffered \ {e}
  /\ ungrouped' = IF committed THEN ungrouped \cup {e} ELSE ungrouped
  /\ tried' = NoEvent
  /\ UNCHANGED <<stage, after, through, page, full, observed>>
  /\ Forget

\* Retention deletes it, or the grouper of another instance groups it.
Delete(e) ==
  /\ e \in ungrouped
  /\ ungrouped' = ungrouped \ {e}
  /\ tried' = NoEvent
  /\ UNCHANGED <<buffered, stage, after, through, page, full, observed>>
  /\ Forget

-----------------------------------------------------------------------------
(* runPass. *)

\* The pass returns; Run keeps the cursor a, t for the next one.
Return(g, a, t) ==
  /\ stage' = [stage EXCEPT ![g] = "rest"]
  /\ after' = [after EXCEPT ![g] = a]
  /\ through' = [through EXCEPT ![g] = t]
  /\ observed' = [observed EXCEPT ![g] = 0]
  /\ page' = [page EXCEPT ![g] = <<>>]
  /\ full' = [full EXCEPT ![g] = FALSE]
  /\ tried' = NoEvent
  /\ UNCHANGED <<buffered, ungrouped>>
  /\ Forget

ContinueSweep(g) ==
  /\ stage[g] = "rest" /\ through[g] # NoEvent
  /\ stage' = [stage EXCEPT ![g] = "read"]
  /\ tried' = NoEvent
  /\ UNCHANGED <<log, buffered, ungrouped, after, through, page, full, observed>>

\* A new sweep ends at what is now the newest ungrouped event.
BeginSweep(g) ==
  /\ stage[g] = "rest" /\ through[g] = NoEvent
  /\ ungrouped # {}
  /\ through' = [through EXCEPT ![g] =
       CHOOSE e \in ungrouped : \A x \in ungrouped : Position(x) <= Position(e)]
  /\ stage' = [stage EXCEPT ![g] = "read"]
  /\ tried' = NoEvent
  /\ UNCHANGED <<log, buffered, ungrouped, after, page, full, observed>>

\* readPage
PageOf(g) ==
  LET rest == SelectSeq(log, LAMBDA e : /\ e \in ungrouped
                                        /\ Position(e) > Position(after[g])
                                        /\ Position(e) <= Position(through[g]))
  IN  SubSeq(rest, 1, IF Len(rest) < PageSize THEN Len(rest) ELSE PageSize)

\* Mutant: a pass that reached its budget gives the cursor up.
OverBudgetRestarts(g) ==
  /\ stage[g] = "read" /\ observed[g] >= PassLimit
  /\ Return(g, NoEvent, NoEvent)

\* The pass has observed its share of events.
OverBudget(g) ==
  /\ stage[g] = "read" /\ observed[g] >= PassLimit
  /\ Return(g, after[g], through[g])

\* The work time or the context of the pass is over, or reading a page fails:
\* the pass ends where it stands.
OutOfTime(g) ==
  /\ stage[g] \in {"read", "page"}
  /\ Return(g, after[g], through[g])

ReadPage(g) ==
  /\ stage[g] = "read" /\ observed[g] < PassLimit
  /\ IF PageOf(g) = <<>>
       THEN Return(g, NoEvent, NoEvent)
       ELSE /\ stage' = [stage EXCEPT ![g] = "page"]
            /\ page' = [page EXCEPT ![g] = PageOf(g)]
            /\ full' = [full EXCEPT ![g] = Len(PageOf(g)) = PageSize]
            /\ tried' = NoEvent
            /\ UNCHANGED <<log, buffered, ungrouped, after, through, observed>>

\* One event of the page; the cursor moves to it before it is tried.  Another
\* grouper may have grouped it, or retention deleted it, since the page was read.
GroupOne(g, ok) ==
  /\ stage[g] = "page" /\ page[g] # <<>>
  /\ LET e == Head(page[g]) IN
       /\ ok => e \notin Broken
       /\ ungrouped' = IF ok THEN ungrouped \ {e} ELSE ungrouped
       /\ after' = [after EXCEPT ![g] = e]
       /\ tried' = e
  /\ page' = [page EXCEPT ![g] = Tail(@)]
  /\ observed' = [observed EXCEPT ![g] = @ + 1]
  /\ UNCHANGED <<buffered, stage, through, full>>
  /\ Forget

\* After the page: a short one was the last of the sweep.
PageDone(g) ==
  /\ stage[g] = "page" /\ page[g] = <<>>
  /\ IF full[g]
       THEN /\ stage' = [stage EXCEPT ![g] = "read"]
            /\ tried' = NoEvent
            /\ UNCHANGED <<log, buffered, ungrouped, after, through, page, full, observed>>
       ELSE Return(g, NoEvent, NoEvent)

-----------------------------------------------------------------------------
Pass(g) ==
  \/ ContinueSweep(g) \/ BeginSweep(g) \/ OverBudget(g) \/ ReadPage(g) \/ PageDone(g)
  \/ \E ok \in BOOLEAN : GroupOne(g, ok)

SweepNext ==
  \/ \E e \in Event : WriteBegins(e) \/ Delete(e)
  \/ \E e \in Event, committed \in BOOLEAN : WriteEnds(e, committed)
  \/ \E g \in Grouper : Pass(g) \/ OutOfTime(g)

SweepSpec == SweepInit /\ [][SweepNext]_sweepVars

\* Run's timer fires and a pass gets on unless it runs out of time; the database
\* answers now and then; transactions of the writers end.
SweepFairness ==
  /\ \A g \in Grouper :
       /\ WF_sweepVars(Pass(g))
       /\ SF_sweepVars(ReadPage(g))
       /\ SF_sweepVars(\E ok \in BOOLEAN : GroupOne(g, ok))
  /\ \A e \in Event : WF_sweepVars(\E committed \in BOOLEAN : WriteEnds(e, committed))

SweepFairSpec == SweepSpec /\ SweepFairness

-----------------------------------------------------------------------------
(* Properties *)

\* Every variable has its type; pages and cursors refer to places in the order,
\* a page lies within the cursor, and a cursor exists while a pass works.
SweepTypeOK ==
  /\ log \in Seq(Event) /\ IsInjective(log)
  /\ buffered \cup ungrouped \subseteq ToSet(log) /\ buffered \cap ungrouped = {}
  /\ tried \in Event \cup {NoEvent}
  /\ \A g \in Grouper :
       /\ stage[g] \in {"rest", "read", "page"}
       /\ {after[g], through[g]} \subseteq ToSet(log) \cup {NoEvent}
       /\ through[g] = NoEvent => stage[g] = "rest" /\ after[g] = NoEvent
       /\ Position(after[g]) <= Position(through[g])
       /\ \A k \in DOMAIN page[g] :
            Position(after[g]) < Position(page[g][k]) /\ Position(page[g][k]) <= Position(through[g])
       /\ Len(page[g]) < PageSize \/ full[g]
       /\ observed[g] \in 0 .. (PassLimit + PageSize)

\* No event is left behind: one that stays ungrouped is tried again and again,
\* however many events fail in front of it, whatever arrives behind it, in
\* whichever order batches commit, and although every pass is cut short.
TriedAgain ==
  \A e \in Event : []<>(tried = e \/ e \notin ungrouped)
=============================================================================
