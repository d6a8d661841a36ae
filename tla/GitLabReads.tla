------------------------------ MODULE GitLabReads ------------------------------
(***************************************************************************)
(* What the calls of the GitLab client return (pkg/gitlab): the listings,  *)
(* read page by page while GitLab changes, and the walks over a pipeline   *)
(* and the pipelines it has triggered.                                     *)
(*                                                                         *)
(* One call at a time: the client keeps nothing between calls but its      *)
(* rate limiter and counters.  Between two calls GitLab becomes anything,  *)
(* during one it makes at most MaxChanges changes.  An item is a branch, a *)
(* tag, an environment, a project, a runner, a job or a pipeline.  A       *)
(* filter of the request (scope, states, updated_after) is GitLab's: an    *)
(* item that it filters out is not in the list.                            *)
(***************************************************************************)
EXTENDS Naturals, FiniteSets, SequencesExt

CONSTANTS Item,         \* what GitLab lists
          Accepted,     \* the items the client's regular expression matches
          Name,         \* Name[i]: the ref of pipeline i, the name of job i
          PerPage,      \* the page size, 100 in the code
          MaxLimit,     \* the largest most_recent
          MaxChanges,   \* bound on the changes of GitLab during a listing
          MaxPipeline   \* bound on the pipelines of a tree

ASSUME ItemAssumption == IsFiniteSet(Item) /\ Accepted \subseteq Item /\ DOMAIN Name = Item

ASSUME BoundAssumption ==
    PerPage \in Nat \ {0} /\ MaxPipeline \in Nat \ {0} /\ MaxLimit \in Nat /\ MaxChanges \in Nat

VARIABLES
    list,       \* what GitLab lists, in its order
    parent,     \* parent[p]: the pipeline that triggered p, 0 before p exists
    call,       \* the call being served
    changes,    \* changes of the list since the call began
    steady,     \* history: the items in the list ever since
    displaced,  \* history: the items that have come forward since
    pushed,     \* history: the items that have gone back since
    planted     \* history: the pipelines of the tree when the call began

gitlabVars == <<list, parent>>
historyVars == <<changes, steady, displaced, pushed, planted>>
vars == <<gitlabVars, call, historyVars>>

Names == {Name[i] : i \in Item}
Root == 1
Pipeline == 1..MaxPipeline

\* Listings that return every item, or every item accepted.
Collecting == {"GetProjectBranches", "GetProjectTags", "GetProjectEnvironments",
               "GetProjectRunners", "ListProjects"}
Unfiltered == {"ListPipelineJobs", "ListPipelineBridges"}
\* Listings that return the first accepted item of each name.
Choosing == {"GetProjectMostRecentTagCommit", "GetRefsFromPipelines", "ListRefMostRecentJobs"}
Walking == {"ListRefPipelineJobs", "GetRefPipelineTestReport"}

NoCall == [fn |-> "none", stage |-> "idle"]

\* "only" are the names asked for, "limit" how many items, 0 for no limit;
\* "items" what is left of the page being looked at, "next" the page after it.
Listing(fn, only, limit, keyset) ==
    [fn |-> fn, stage |-> "reading", page |-> 1, next |-> 0, passed |-> 0, items |-> <<>>,
     only |-> only, limit |-> limit, keyset |-> keyset, got |-> <<>>]

Walk(fn, children) ==
    [fn |-> fn, stage |-> "root", children |-> children,
     todo |-> <<Root>>, bridges |-> <<>>, got |-> <<>>]

\* The refs of the pipelines are asked for up to most_recent, the latest jobs of
\* the ref by offset or, if GitLab can, with keyset pagination.
RefListings(existing) == {Listing("GetRefsFromPipelines", existing, n, FALSE) : n \in 0..MaxLimit}

JobListings(keyset) ==
    {Listing("ListRefMostRecentJobs", names, Cardinality(names), keyset) : names \in SUBSET Names \ {{}}}

Listings ==
    {Listing(fn, Names, 0, FALSE) : fn \in Collecting \cup Unfiltered}
      \cup {Listing("GetProjectMostRecentTagCommit", Names, 1, FALSE)}
      \cup (UNION {RefListings(existing) : existing \in SUBSET Names})
      \cup JobListings(FALSE) \cup JobListings(TRUE)

Walks == {Walk(fn, FALSE) : fn \in Walking} \cup {Walk(fn, TRUE) : fn \in Walking}

Lists == UNION {{s \in [1..n -> Item] : IsInjective(s)} : n \in 0..Cardinality(Item)}

\* GitLab creates a pipeline after the one that triggers it.
Trees == {t \in [Pipeline -> 0..MaxPipeline] :
             \A p \in Pipeline : t[p] < p /\ (t[p] # 0 => t[p] = Root \/ t[t[p]] # 0)}

Created == {Root} \cup {p \in Pipeline : parent[p] # 0}
Triggered(p) == {q \in Pipeline : parent[q] = p}

TypeOK ==
    /\ list \in Lists
    /\ parent \in Trees
    /\ changes \in 0..MaxChanges
    /\ steady \subseteq Item /\ displaced \subseteq Item /\ pushed \subseteq Item
    /\ planted \subseteq Created
    /\ call.stage \in {"idle", "root", "reading", "taking", "popping", "fetching", "done", "failed"}
    /\ call.fn \in Collecting \cup Unfiltered \cup Choosing =>
          call.page \in 1..(Cardinality(Item) + changes + 1) /\ call.got \in Seq(Item) /\ call.items \in Seq(Item)
    /\ call.fn \in Walking => call.got \in Seq(Pipeline) /\ call.todo \in Seq(Pipeline)

Init ==
    /\ list = <<>>
    /\ parent = [p \in Pipeline |-> 0]
    /\ call = NoCall
    /\ changes = 0
    /\ steady = {} /\ displaced = {} /\ pushed = {} /\ planted = {}

-----------------------------------------------------------------------------
\* GitLab.

\* A list with keyset pagination is read on from the last item read, whatever
\* happens before it: "passed" is the number of items up to there.
Shift(at, by) ==
    IF call.keyset /\ at <= call.passed THEN [call EXCEPT !.passed = @ + by] ELSE call

Before(i) == {list[j] : j \in 1..(i - 1)}
After(i) == {list[j] : j \in (i + 1)..Len(list)}

\* Between two pages: before the first one GitLab lists anything as it is.
Change(l, forward, back) ==
    /\ call.stage = "reading" /\ call.fn \notin Walking /\ call.page > 1
    /\ changes < MaxChanges
    /\ changes' = changes + 1
    /\ list' = l
    /\ steady' = steady \cap ToSet(l)
    /\ displaced' = displaced \cup forward
    /\ pushed' = pushed \cup back
    /\ UNCHANGED <<parent, planted>>

\* A keyset is ordered by age: what is new comes first.
InsertItem(i, item) ==
    /\ Change(InsertAt(list, i, item), {}, After(i - 1))
    /\ item \notin ToSet(list) \cup ToSet(call.got)
    /\ call.fn = "ListRefMostRecentJobs" => i = 1
    /\ call' = Shift(i, 1)

RemoveItem(i) ==
    /\ Change(RemoveAt(list, i), After(i), {})
    /\ call' = Shift(i, -1)

\* A pipeline is updated: the list is ordered by updated_at.
MoveItemFirst(i) ==
    /\ call.fn = "GetRefsFromPipelines"
    /\ i > 1
    /\ Change(<<list[i]>> \o RemoveAt(list, i), {list[i]}, Before(i))
    /\ UNCHANGED call

TriggerPipeline(p, q) ==
    /\ call.fn \in Walking /\ call.stage # "done"
    /\ p \in Created /\ q \notin Created /\ p < q
    /\ parent' = [parent EXCEPT ![q] = p]
    /\ UNCHANGED <<list, call, historyVars>>

-----------------------------------------------------------------------------
\* Calls.

StartListing(l, c) ==
    /\ call = NoCall
    /\ list' = l
    /\ call' = c
    /\ steady' = ToSet(l)
    /\ UNCHANGED <<parent, changes, displaced, pushed, planted>>

StartWalk(t, c) ==
    /\ call = NoCall
    /\ parent' = t
    /\ call' = c
    /\ planted' = {Root} \cup {p \in Pipeline : t[p] # 0}
    /\ UNCHANGED <<list, changes, steady, displaced, pushed>>

Forget ==
    /\ list' = <<>>
    /\ parent' = [p \in Pipeline |-> 0]
    /\ changes' = 0
    /\ steady' = {} /\ displaced' = {} /\ pushed' = {} /\ planted' = {}

Return ==
    /\ call.stage \in {"done", "failed"}
    /\ call' = NoCall
    /\ Forget

\* rateLimit, or the request: the context ends or GitLab answers with an error.
\* What was read so far is returned with the error, and every caller drops it.
CallFails ==
    /\ call.stage \notin {"idle", "taking", "done", "failed"}
    /\ call' = [NoCall EXCEPT !.stage = "failed"]
    /\ Forget

-----------------------------------------------------------------------------
\* Listings.

\* Mutant: the cursor of a keyset is taken for a page number.
SkippedByPage == (call.page - 1) * PerPage

Skipped == IF call.keyset THEN call.passed ELSE (call.page - 1) * PerPage

Page == SubSeq(list, Skipped + 1, Min({Skipped + PerPage, Len(list)}))

\* Mutant: the item that would be alone on the last page is never read.
NextPageShort == IF Skipped + PerPage + 1 >= Len(list) THEN 0 ELSE call.page + 1

\* Mutant: the last page is not recognised.
NextPageAlways == call.page + 1

\* The next page in the headers of the answer, 0 on the last page.
NextPage == IF Skipped + PerPage >= Len(list) THEN 0 ELSE call.page + 1

\* A call that has looked at what is left of a page ends with the last page, or
\* with as many items as asked for, or asks for the next page.
Turned(c) ==
    IF \/ c.limit > 0 /\ Len(c.got) = c.limit
       \/ c.items = <<>> /\ c.page >= c.next
    THEN [c EXCEPT !.stage = "done", !.items = <<>>]
    ELSE IF c.items = <<>> THEN [c EXCEPT !.stage = "reading", !.page = c.next]
    ELSE [c EXCEPT !.stage = "taking"]

\* The loop asks for a page, ...
ReadPage ==
    /\ call.stage = "reading"
    /\ call' = Turned([call EXCEPT !.items = Page, !.next = NextPage, !.passed = Skipped + PerPage])

\* ... and takes each item of it or not.
TakeItem(wanted) ==
    /\ call.stage = "taking"
    /\ LET item == Head(call.items)
       IN call' = Turned([call EXCEPT !.items = Tail(@), !.got = IF item \in wanted THEN Append(@, item) ELSE @])

\* A listing that takes the items in "wanted".  GitLab does not change while a page that it has sent is looked at:
\* the loop over the page touches nothing that GitLab does.
List(fn, wanted) ==
    /\ call.fn = fn
    /\ ReadPage \/ TakeItem(wanted)
    /\ UNCHANGED <<gitlabVars, historyVars>>

\* refs[ref.Key()] = ref, if the regular expression matches.
NewOnes == Accepted \ ToSet(call.got)

\* Mutant: the names that have been found are not remembered.
OfAnyName == {i \in Accepted : Name[i] \in call.only}

\* Those whose names have not been found yet.
FirstOfName == {i \in Accepted : Name[i] \in call.only /\ \A j \in ToSet(call.got) : Name[j] # Name[i]}

\* Mutant: the page of the request is never moved on.
GetProjectBranchesAgain ==
    /\ call.fn = "GetProjectBranches"
    /\ call.stage \in {"reading", "taking"}
    /\ call' = [call EXCEPT !.stage = IF Len(list) > PerPage THEN "reading" ELSE "done"]
    /\ UNCHANGED <<gitlabVars, historyVars>>

GetProjectBranches == List("GetProjectBranches", NewOnes)

GetProjectTags == List("GetProjectTags", NewOnes)

GetProjectEnvironments == List("GetProjectEnvironments", NewOnes)

GetProjectRunners == List("GetProjectRunners", NewOnes)

\* The regular expression is the owner's name.
ListProjects == List("ListProjects", Accepted)

ListPipelineJobs == List("ListPipelineJobs", Item)

ListPipelineBridges == List("ListPipelineBridges", Item)

GetProjectMostRecentTagCommit == List("GetProjectMostRecentTagCommit", FirstOfName)

\* "only" are the existing refs, if deleted ones are excluded.  Of a pipeline
\* the ref is returned.
GetRefsFromPipelines == List("GetRefsFromPipelines", FirstOfName)

\* "only" are the names of the latest jobs of the ref, Accepted its own jobs.
ListRefMostRecentJobs == List("ListRefMostRecentJobs", FirstOfName)

-----------------------------------------------------------------------------
\* Walks.  ListPipelineJobs and ListPipelineBridges are one step of a walk each;
\* for the jobs of a pipeline, or its test report, stands the pipeline.

\* Mutant: the walk begins at the pipelines the root has triggered.
ListRefPipelineJobsOnly ==
    /\ call.fn = "ListRefPipelineJobs"
    /\ call.stage = "root"
    /\ call' = [call EXCEPT !.got = IF call.children THEN <<>> ELSE <<Root>>,
                            !.stage = IF call.children THEN "popping" ELSE "done"]
    /\ UNCHANGED <<gitlabVars, historyVars>>

\* The jobs of the pipeline itself, then those of its children if configured.
ListRefPipelineJobs ==
    /\ call.fn = "ListRefPipelineJobs"
    /\ call.stage = "root"
    /\ call' = [call EXCEPT !.got = <<Root>>,
                            !.stage = IF call.children THEN "popping" ELSE "done"]
    /\ UNCHANGED <<gitlabVars, historyVars>>

\* A stack: the last pipeline is read first.
ListPipelineChildJobs ==
    /\ call.fn = "ListRefPipelineJobs"
    /\ call.stage = "popping"
    /\ call' = IF call.todo = <<>> THEN [call EXCEPT !.stage = "done"]
               ELSE [call EXCEPT !.todo = Front(@), !.stage = "fetching",
                                 !.bridges = SetToSeq(Triggered(Last(call.todo)))]
    /\ UNCHANGED <<gitlabVars, historyVars>>

\* A bridge with a downstream pipeline: its jobs are listed at once.
FetchChildJobs ==
    /\ call.stage = "fetching"
    /\ call' = IF call.bridges = <<>> THEN [call EXCEPT !.stage = "popping"]
               ELSE [call EXCEPT !.bridges = Tail(@),
                                 !.todo = Append(@, Head(call.bridges)),
                                 !.got = Append(@, Head(call.bridges))]
    /\ UNCHANGED <<gitlabVars, historyVars>>

\* A queue: the report of the first pipeline is added to the sum, and ...
GetRefPipelineTestReport ==
    /\ call.fn = "GetRefPipelineTestReport"
    /\ call.stage \in {"root", "reading"}
    /\ call' = IF call.todo = <<>> THEN [call EXCEPT !.stage = "done"]
               ELSE [call EXCEPT !.todo = Tail(@), !.got = Append(@, Head(call.todo)),
                                 !.stage = IF call.children THEN "popping" ELSE "reading"]
    /\ UNCHANGED <<gitlabVars, historyVars>>

\* ... if configured, the pipelines it has triggered are queued.
QueueChildren ==
    /\ call.fn = "GetRefPipelineTestReport"
    /\ call.stage = "popping"
    /\ call' = [call EXCEPT !.todo = @ \o SetToSeq(Triggered(Last(call.got))),
                            !.stage = "reading"]
    /\ UNCHANGED <<gitlabVars, historyVars>>

-----------------------------------------------------------------------------
ListingStep ==
    \/ GetProjectBranches \/ GetProjectTags \/ GetProjectEnvironments \/ GetProjectRunners
    \/ ListProjects \/ ListPipelineJobs \/ ListPipelineBridges
    \/ GetProjectMostRecentTagCommit \/ GetRefsFromPipelines \/ ListRefMostRecentJobs

WalkStep ==
    \/ ListRefPipelineJobs \/ ListPipelineChildJobs \/ FetchChildJobs
    \/ GetRefPipelineTestReport \/ QueueChildren

GitLabStep ==
    \/ \E i \in DOMAIN list : RemoveItem(i) \/ MoveItemFirst(i)
    \/ \E i \in 1..(Len(list) + 1), item \in Item : InsertItem(i, item)
    \/ \E p, q \in Pipeline : TriggerPipeline(p, q)

Next ==
    \/ \E l \in Lists, c \in Listings : StartListing(l, c)
    \/ \E t \in Trees, c \in Walks : StartWalk(t, c)
    \/ ListingStep \/ WalkStep \/ GitLabStep
    \/ CallFails \/ Return

Spec == Init /\ [][Next]_vars

\* The goroutine of the call runs on.
FairSpec == Spec /\ WF_vars(ListingStep) /\ WF_vars(WalkStep)

-----------------------------------------------------------------------------
\* Properties.

Listed == call.stage = "done" /\ call.fn \notin Walking

\* What a listing would return if GitLab answered it from one state l.
Chosen(l) ==
    LET Fits(i) == l[i] \in Accepted /\ Name[l[i]] \in call.only
        firsts == {i \in DOMAIN l : Fits(i) /\ \A j \in 1..(i - 1) : Fits(j) => Name[l[j]] # Name[l[i]]}
    IN {l[i] : i \in {k \in firsts : call.limit = 0 \/ Cardinality({j \in firsts : j <= k}) <= call.limit}}

Expected(l) ==
    CASE call.fn \in Unfiltered -> ToSet(l)
      [] call.fn \in Collecting -> ToSet(l) \cap Accepted
      [] call.fn \in Choosing -> Chosen(l)

\* A listing during which GitLab does not change returns what it should: every
\* matching item once, or the first most_recent refs, or the latest job of each
\* name (GetProjectBranches ... ListRefMostRecentJobs).
ListedAsOfOneState ==
    Listed /\ changes = 0 => ToSet(call.got) = Expected(list) /\ IsInjective(call.got)

\* Pages are read by position.  A matching item that is in the list all along is
\* missed only if it came forward, past the place read next, because another one
\* was removed or itself was updated; with keyset pagination not even then.
MissedOnlyIfDisplaced ==
    Listed =>
        \A item \in steady \cap (IF call.fn \in Unfiltered THEN Item ELSE Accepted) :
            \/ item \in ToSet(call.got)
            \/ item \in displaced /\ ~call.keyset
            \/ /\ call.fn \in Choosing
               /\ \/ Name[item] \notin call.only
                  \/ call.limit > 0 /\ Len(call.got) = call.limit
                  \/ \E j \in ToSet(call.got) : Name[j] = Name[item]

\* Of two jobs, or pipelines, of a name the one listed first is taken, unless it
\* came forward; and no job is returned twice unless it went back.
MostRecentOfName ==
    Listed =>
        /\ \A i, j \in DOMAIN list :
              call.fn \in Choosing /\ i < j /\ {list[i], list[j]} \subseteq steady \cap Accepted
              /\ Name[list[i]] = Name[list[j]] /\ list[j] \in ToSet(call.got)
                => list[i] \in displaced
        /\ \A i, j \in DOMAIN call.got : i < j /\ call.got[i] = call.got[j] => call.got[i] \in pushed

\* The jobs, or the test reports, of a pipeline and of all it has triggered,
\* directly or not, are counted once each: none twice, and none missing that was
\* there when the call began.
WalkedOnce ==
    call.stage = "done" /\ call.fn \in Walking =>
        /\ IsInjective(call.got)
        /\ (IF call.children THEN planted ELSE {Root}) \subseteq ToSet(call.got)
        /\ ToSet(call.got) \subseteq (IF call.children THEN Created ELSE {Root})

\* Every call returns, with an answer or an error.
CallReturns == call.stage # "idle" ~> call.stage \in {"done", "failed"}
=============================================================================
