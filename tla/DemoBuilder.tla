----------------------------- MODULE DemoBuilder -----------------------------
(***************************************************************************)
(* Sales demos (demo-engine/routes.ts, core.ts, website.ts): operators     *)
(* create, edit, review, publish and archive them, visitors open the link  *)
(* that was shared and their browsers report what they tried.              *)
(*                                                                         *)
(* A form carries the version of the page it was made from.  Reading the   *)
(* business's homepage takes seconds: an edit reads it before the row is   *)
(* updated, a creation while it holds the lock of its request.             *)
(***************************************************************************)
EXTENDS Naturals, FiniteSets

CONSTANTS
  Demos,        \* creation requests, and the demos they make
  Operators,    \* browser tabs of operators
  Sessions,     \* visitors' browsers
  DemoForms,    \* what a form may say: [recommended, modules, notes, niche, research, prospect]
  LinkedProspects, \* prospects a demo may be linked to
  Homepages,    \* what the homepage of the business may show
  EventCap,     \* events of a demo that are recorded (5,000)
  MaxDemoVersions

ASSUME DemoBuilderAssumption == EventCap \in Nat

VARIABLES
  demo,      \* SalesDemo rows
  visits,    \* SalesDemoEvent rows, <<demo, session, kind>>
  tab,       \* the page or form in each operator's tab
  report,    \* the event each visitor's browser is reporting
  prospects, \* prospects that exist
  reviewed   \* history: the presentation on the page a demo was published from

demoBuilderVars == <<demo, visits, tab, report, prospects, reviewed>>

DemoModules == {"voice", "chatbot", "missed_call", "nurture", "audit", "roi"}
Researched == {"not_requested", "unavailable"} \union Homepages
NoPresentation == [modules |-> {}, homepage |-> "not_requested"]
NoDemo == [version |-> 0, status |-> "none", over |-> FALSE, presentation |-> NoPresentation, count |-> 0]
BlankTab == [shows |-> "blank"]
NoReport == <<>>

DemoBuilderInit ==
  /\ demo = [d \in Demos |-> NoDemo]
  /\ visits = {}
  /\ tab = [o \in Operators |-> BlankTab]
  /\ report = [s \in Sessions |-> NoReport]
  /\ prospects = LinkedProspects
  /\ reviewed = [d \in Demos |-> NoPresentation]

-----------------------------------------------------------------------------
(* What a form makes (core.ts).                                            *)

\* Notes are summed up by the pain they speak of.
Recommended(notes, niche) ==
  CASE notes = "follow_up"   -> {"nurture", "chatbot", "roi"}
    [] notes = "missed_call" -> {"missed_call", "voice", "chatbot", "roi"}
    [] notes = "website"     -> {"audit", "chatbot", "roi"}
    [] OTHER -> IF niche = "real_estate" THEN {"nurture", "chatbot", "roi"}
                ELSE {"voice", "missed_call", "chatbot", "roi"}

ChosenModules(f) == IF f.recommended THEN Recommended(f.notes, f.niche) ELSE f.modules
FormValid(f) == ChosenModules(f) # {} /\ ChosenModules(f) \subseteq DemoModules
Linkable(f) == f.prospect \in prospects \union {"none"}

\* researchHomepage: an unsafe or unreadable homepage is no error.
HomepageFindings(f) == IF f.research THEN Homepages \union {"unavailable"} ELSE {"not_requested"}
Presentation(f, found) == [modules |-> ChosenModules(f), homepage |-> found]

-----------------------------------------------------------------------------
(* What the operations make of a row.  A demo that was edited is a draft   *)
(* again, its link shows nothing; publishing again renews the link.        *)

Created(row, shown) == [row EXCEPT !.version = 1, !.status = "draft", !.presentation = shown]
Edited(row, shown) ==
  [row EXCEPT !.version = row.version + 1, !.status = "draft", !.over = FALSE, !.presentation = shown]
Published(row) == [row EXCEPT !.version = row.version + 1, !.status = "published", !.over = FALSE]
Archived(row) == [row EXCEPT !.version = row.version + 1, !.status = "archived"]

-----------------------------------------------------------------------------
(* Operators (demoAdminRouter).                                            *)

\* The advisory lock of the creation request.
BeingCreated(d) == \E o \in Operators : tab[o].shows = "creating" /\ tab[o].demo = d

SubmitCreation(o, d, f) ==
  /\ tab[o] = BlankTab /\ FormValid(f)
  /\ ~BeingCreated(d) /\ demo[d].status = "none" /\ Linkable(f)
  /\ tab' = [tab EXCEPT ![o] = [shows |-> "creating", demo |-> d, form |-> f]]
  /\ UNCHANGED <<demo, visits, report, prospects, reviewed>>

CreateDemo(o) ==
  /\ tab[o].shows = "creating" /\ Linkable(tab[o].form)
  /\ \E found \in HomepageFindings(tab[o].form) :
       demo' = [demo EXCEPT ![tab[o].demo] = Created(@, Presentation(tab[o].form, found))]
  /\ tab' = [tab EXCEPT ![o] = BlankTab]
  /\ UNCHANGED <<visits, report, prospects, reviewed>>

OpenDemo(o, d, shows) ==
  /\ tab[o] = BlankTab /\ demo[d].status # "none"
  /\ tab' = [tab EXCEPT ![o] =
       [shows |-> shows, demo |-> d, version |-> demo[d].version, presentation |-> demo[d].presentation]]
  /\ UNCHANGED <<demo, visits, report, prospects, reviewed>>

SubmitEdit(o, f) ==
  /\ tab[o].shows = "form" /\ FormValid(f) /\ Linkable(f)
  /\ \E found \in HomepageFindings(f) :
       tab' = [tab EXCEPT ![o] =
         [shows |-> "saving", demo |-> tab[o].demo, version |-> tab[o].version, form |-> f,
          presentation |-> Presentation(f, found)]]
  /\ UNCHANGED <<demo, visits, report, prospects, reviewed>>

\* Mutant: the row is updated by its id.
SameDemo(o) == demo[tab[o].demo].status # "none"
SameDemoVersion(o) == demo[tab[o].demo].version = tab[o].version

SaveEdit(o) ==
  /\ tab[o].shows = "saving" /\ SameDemoVersion(o) /\ Linkable(tab[o].form)
  /\ demo[tab[o].demo].version < MaxDemoVersions
  /\ demo' = [demo EXCEPT ![tab[o].demo] = Edited(@, tab[o].presentation)]
  /\ tab' = [tab EXCEPT ![o] = BlankTab]
  /\ UNCHANGED <<visits, report, prospects, reviewed>>

Publish(o) ==
  /\ tab[o].shows = "page" /\ SameDemoVersion(o)
  /\ demo[tab[o].demo].version < MaxDemoVersions
  /\ demo' = [demo EXCEPT ![tab[o].demo] = Published(@)]
  /\ reviewed' = [reviewed EXCEPT ![tab[o].demo] = tab[o].presentation]
  /\ tab' = [tab EXCEPT ![o] = BlankTab]
  /\ UNCHANGED <<visits, report, prospects>>

ArchiveDemo(o) ==
  /\ tab[o].shows = "page" /\ SameDemoVersion(o)
  /\ demo[tab[o].demo].version < MaxDemoVersions
  /\ demo' = [demo EXCEPT ![tab[o].demo] = Archived(@)]
  /\ tab' = [tab EXCEPT ![o] = BlankTab]
  /\ UNCHANGED <<visits, report, prospects, reviewed>>

\* A tab is closed, a form refused, a creation rolled back after its timeout.
CloseTab(o) ==
  /\ tab[o] # BlankTab
  /\ tab' = [tab EXCEPT ![o] = BlankTab]
  /\ UNCHANGED <<demo, visits, report, prospects, reviewed>>

RemoveProspect(p) ==
  /\ p \in prospects /\ prospects' = prospects \ {p}
  /\ UNCHANGED <<demo, visits, tab, report, reviewed>>

-----------------------------------------------------------------------------
(* Visitors (demoPublicRouter).                                            *)

LinkEnds(d) ==
  /\ demo[d].status = "published" /\ ~demo[d].over
  /\ demo' = [demo EXCEPT ![d].over = TRUE]
  /\ UNCHANGED <<visits, tab, report, prospects, reviewed>>

CanView(d) == demo[d].status = "published" /\ ~demo[d].over

EventOf ==
  [voice |-> "voice_previewed", chatbot |-> "chatbot_tested", missed_call |-> "missed_call_tested",
   nurture |-> "nurture_tested", audit |-> "audit_viewed", roi |-> "roi_used"]
AllowedEvents(d) == {"opened"} \union {EventOf[m] : m \in demo[d].presentation.modules}

ReportEvent(s, d, kind) ==
  /\ report[s] = NoReport /\ CanView(d) /\ kind \in AllowedEvents(d)
  /\ report' = [report EXCEPT ![s] = <<d, s, kind>>]
  /\ UNCHANGED <<demo, visits, tab, prospects, reviewed>>

Counted(d) == CanView(d) /\ demo[d].count < EventCap

\* An event that is not counted is taken out again.
RecordEvent(s) ==
  /\ report[s] # NoReport
  /\ LET d == report[s][1]  new == report[s] \notin visits /\ Counted(d) IN
       /\ visits' = IF new THEN visits \union {report[s]} ELSE visits
       /\ demo' = IF new THEN [demo EXCEPT ![d].count = @ + 1] ELSE demo
  /\ report' = [report EXCEPT ![s] = NoReport]
  /\ UNCHANGED <<tab, prospects, reviewed>>

-----------------------------------------------------------------------------
DemoBuilderNext ==
  \/ \E o \in Operators, d \in Demos :
       \/ \E f \in DemoForms : SubmitCreation(o, d, f)
       \/ \E shows \in {"page", "form"} : OpenDemo(o, d, shows)
  \/ \E o \in Operators, f \in DemoForms : SubmitEdit(o, f)
  \/ \E o \in Operators : CreateDemo(o) \/ SaveEdit(o) \/ Publish(o) \/ ArchiveDemo(o) \/ CloseTab(o)
  \/ \E p \in LinkedProspects : RemoveProspect(p)
  \/ \E d \in Demos : LinkEnds(d)
  \/ \E s \in Sessions, d \in Demos :
       demo[d].status # "none" /\ \E kind \in AllowedEvents(d) : ReportEvent(s, d, kind)
  \/ \E s \in Sessions : RecordEvent(s)

DemoBuilderSpec == DemoBuilderInit /\ [][DemoBuilderNext]_demoBuilderVars

-----------------------------------------------------------------------------
ValidForms == {f \in DemoForms : FormValid(f)}
Presentations == [modules : SUBSET DemoModules, homepage : Researched]
DemoRows == [version : Nat, status : {"none", "draft", "published", "archived"}, over : BOOLEAN,
             presentation : Presentations, count : 0 .. EventCap]
TabRows ==
  {BlankTab}
    \union [shows : {"creating"}, demo : Demos, form : ValidForms]
    \union [shows : {"page", "form"}, demo : Demos, version : Nat, presentation : Presentations]
    \union [shows : {"saving"}, demo : Demos, version : Nat, form : ValidForms,
            presentation : Presentations]
EventKinds == {"opened"} \union {EventOf[m] : m \in DemoModules}
EventRows == Demos \X Sessions \X EventKinds
DemoBuilderTypeOK ==
  /\ demo \in [Demos -> DemoRows] /\ tab \in [Operators -> TabRows]
  /\ visits \subseteq EventRows /\ IsFiniteSet(visits)
  /\ report \in [Sessions -> EventRows \union {NoReport}]
  /\ prospects \subseteq LinkedProspects /\ reviewed \in [Demos -> Presentations]

\* Two operators edit and publish the same demo, each from the page they read,
\* with a homepage read in between: what the link shows is what was on the page
\* of the operator who published it (routes.ts:233-258 and 303-326).
PublishedWasReviewed ==
  \A d \in Demos : CanView(d) => demo[d].presentation = reviewed[d]

\* A visitor's event that arrives while the demo is edited, archived or expires
\* is not recorded: events are only added while the link is open, and the count
\* of a demo follows its events up to the cap (routes.ts:415-436).
RecordedWhileShared ==
  [][\A d \in Demos :
       LET of(rows) == {v \in rows : v[1] = d} IN
       of(visits') # of(visits) =>
         /\ of(visits) \subseteq of(visits') /\ CanView(d)
         /\ demo'[d].count = Cardinality(of(visits')) /\ demo'[d].count <= EventCap]_demoBuilderVars
=============================================================================
