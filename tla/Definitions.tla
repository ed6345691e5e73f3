------------------------------- MODULE Definitions -------------------------------
(*****************************************************************************)
(* The catalogues the rest of the system refers to: device methods, device   *)
(* templates, report templates and metrics. A catalogue entry is a row per   *)
(* version. All rows here are versions of one code; catalogue says which of  *)
(* the four it is. Every handler is one transaction, and none takes a lock.  *)
(* An update is two steps: it reads and checks the row, and what it writes   *)
(* is committed when other requests may have been handled in between. The    *)
(* other handlers are one step: two of them on one code do not overlap here. *)
(*****************************************************************************)
EXTENDS Integers, Sequences, FiniteSets

CONSTANTS
  None,
  Catalogues,  \* those that are explored
  Person,
  SelfApprovers, \* administrators of a test environment who may approve their own
  Content,     \* what a version may say
  Sound,       \* the contents that pass the checks
  User,        \* what refers to versions: recipes, adapters, reports or values
  Connection,  \* what an adapter adds to its template
  MaxRows, MaxDefEdits, MaxDefTickets  \* bounds

VARIABLES
  catalogue,
  rows,       \* [version, state, by, editors, content, rv]; state "gone": deleted
  users,      \* user -> what it holds of the catalogue
  writing,    \* what updates have checked and not committed yet: [row, content, by, hands, rv]
  tickets,    \* signatures nothing consumed yet: [row, rv, person]
  defEdits,   \* bound
  approved    \* ghost: row -> [by, contents, hands] at its release, or None

definitionVars == <<catalogue, rows, users, writing, tickets, defEdits, approved>>

Kept == {i \in DOMAIN rows : rows[i].state # "gone"}
In(state) == {i \in Kept : rows[i].state = state}
NewestVersion == IF Kept = {} THEN 0 ELSE CHOOSE v \in {rows[i].version : i \in Kept} : \A i \in Kept : rows[i].version <= v

Draft(p, c, version) == [version |-> version, state |-> "draft", by |-> p, editors |-> {p}, content |-> c, rv |-> 1]

\* A new draft; approved grows with it.
Added(row) ==
  /\ Len(rows) < MaxRows
  /\ rows' = Append(rows, row)
  /\ approved' = Append(approved, None)

Untouched == UNCHANGED <<catalogue, users, writing, tickets, defEdits>>

\* What a handler is sent may be the version a screen showed; no version is not checked.
CheckVersion(i, seen) == seen \in {None, rows[i].rv}

\* The rows after row i is released: every other released version of the code retires.
Released_Mut(i) == [rows EXCEPT ![i].state = "released", ![i].rv = @ + 1]

Released(i) ==
  [n \in DOMAIN rows |->
     IF n = i THEN [rows[n] EXCEPT !.state = "released", !.rv = @ + 1]
     ELSE IF rows[n].state = "released" THEN [rows[n] EXCEPT !.state = "retired", !.rv = @ + 1] ELSE rows[n]]

\* What a row says, and what it will come to say by the updates under way.
Sayings(i) == {rows[i].content} \cup {w.content : w \in {w \in writing : w.row = i}}

Approve(i, p) == approved' = [approved EXCEPT ![i] = [by |-> p, contents |-> Sayings(i), hands |-> rows[i].editors]]

Retired(i) == [rows EXCEPT ![i].state = "retired", ![i].rv = @ + 1]
Deleted(i) == [rows EXCEPT ![i].state = "gone"]

Edit == defEdits < MaxDefEdits /\ defEdits' = defEdits + 1

MayEdit_Mut(i) == Edit

MayEdit(i) == Edit /\ rows[i].state = "draft"

\* What p's update of row i is going to write: of the row it read, only what it changes.
Submit(i, c, p, rv) ==
  /\ writing' = writing \cup {[row |-> i, content |-> c, by |-> p, hands |-> rows[i].editors, rv |-> rv]}
  /\ UNCHANGED <<catalogue, rows, users, tickets, approved>>

\* The row as it is written, whatever became of it; the list of its editors if p was not on it.
Written(w) ==
  [rows[w.row] EXCEPT !.content = w.content, !.rv = w.rv,
                      !.editors = IF w.by \in w.hands THEN @ ELSE w.hands \cup {w.by}]

\* The update is committed. It fails if the row is no longer there.
Commit(w) ==
  /\ writing' = writing \ {w}
  /\ rows' = IF rows[w.row].state = "gone" THEN rows ELSE [rows EXCEPT ![w.row] = Written(w)]
  /\ UNCHANGED <<catalogue, users, tickets, defEdits, approved>>

-----------------------------------------------------------------------------
(* Device methods. Recipes refer to a version; a batch takes its content.   *)

MethodUsers(i) == {r \in User : users[r].state # "retired" /\ users[r].ref = i}

CreateMethod(p, c) == /\ Kept = {} /\ Added(Draft(p, c, 1)) /\ Untouched

\* Who edits a method is not recorded.
UpdateMethod(i, seen, c) == CheckVersion(i, seen) /\ MayEdit(i) /\ Submit(i, c, rows[i].by, rows[i].rv + 1)

ReleaseMethod(i, seen, p) ==
  /\ CheckVersion(i, seen) /\ rows[i].state = "draft"
  /\ rows[i].content \in Sound
  /\ rows[i].by = p => p \in SelfApprovers
  /\ rows' = Released(i) /\ Approve(i, p)
  /\ Untouched

ReviseMethod(i, p) ==
  /\ In("draft") = {}
  /\ Added(Draft(p, rows[i].content, NewestVersion + 1))
  /\ Untouched

RetireMethod(i, seen) ==
  /\ CheckVersion(i, seen) /\ rows[i].state = "released"
  /\ rows' = Retired(i)
  /\ UNCHANGED approved /\ Untouched

DeleteMethod_Mut(i) ==
  /\ rows[i].state = "draft"
  /\ rows' = Deleted(i)
  /\ UNCHANGED approved /\ Untouched

DeleteMethod(i) ==
  /\ rows[i].state = "draft" /\ MethodUsers(i) = {}
  /\ rows' = Deleted(i)
  /\ UNCHANGED approved /\ Untouched

\* The problems a step has with its method.
StepProblems(i) == rows[i].state # "released"

\* A recipe: refers to a version while it is a draft, is released, makes a batch, retires.
UseMethod(r) ==
  /\ \/ /\ users[r].state = "draft"
        /\ \E i \in Kept : users' = [users EXCEPT ![r].ref = i]
     \/ /\ users[r].state = "draft" /\ users[r].ref # None /\ ~StepProblems(users[r].ref)
        /\ users' = [users EXCEPT ![r].state = "released", ![r].seen = Sayings(users[r].ref)]
     \/ /\ users[r].state = "released"
        /\ users' = [users EXCEPT ![r].state = "retired"]
     \/ /\ users[r].state = "released" /\ ~StepProblems(users[r].ref)
        /\ users' = [users EXCEPT ![r].made = @ \cup {rows[users[r].ref].content}]
  /\ UNCHANGED <<catalogue, rows, writing, tickets, defEdits, approved>>

-----------------------------------------------------------------------------
(* Device templates. An adapter takes the configuration of a template.      *)

MergeConfig(c, connection) == <<c, connection>>

CreateTemplate(p, c) == /\ Kept = {} /\ Added(Draft(p, c, 1)) /\ Untouched

\* A file is taken in as the next version.
ImportTemplate(p, c) ==
  /\ In("draft") = {}
  /\ Added(Draft(p, c, NewestVersion + 1))
  /\ Untouched

UpdateTemplate(i, seen, c, p) == CheckVersion(i, seen) /\ MayEdit(i) /\ Submit(i, c, p, rows[i].rv + 1)

\* People sign what they see: the row and its version.
SignTemplate(i, p) ==
  /\ Cardinality(tickets) < MaxDefTickets
  /\ tickets' = tickets \cup {[row |-> i, rv |-> rows[i].rv, person |-> p]}
  /\ UNCHANGED <<catalogue, rows, users, writing, defEdits, approved>>

Signed(t, i, p) == t.row = i /\ t.rv = rows[i].rv /\ t.person = p

Authors_Mut(i) == {rows[i].by}

Authors(i) == {rows[i].by} \cup rows[i].editors

ReleaseTemplate(i, seen, p) ==
  /\ CheckVersion(i, seen) /\ rows[i].state = "draft"
  /\ rows[i].content \in Sound
  /\ p \in Authors(i) => p \in SelfApprovers
  /\ \E t \in tickets : Signed(t, i, p) /\ tickets' = tickets \ {t}
  /\ rows' = Released(i) /\ Approve(i, p)
  /\ UNCHANGED <<catalogue, users, writing, defEdits>>

ReviseTemplate(i, p) ==
  /\ In("draft") = {}
  /\ Added(Draft(p, rows[i].content, NewestVersion + 1))
  /\ Untouched

RetireTemplate(i, seen) ==
  /\ CheckVersion(i, seen) /\ rows[i].state = "released"
  /\ rows' = Retired(i)
  /\ UNCHANGED approved /\ Untouched

DeleteTemplate(i) ==
  /\ rows[i].state = "draft"
  /\ rows' = Deleted(i)
  /\ UNCHANGED approved /\ Untouched

\* What an adapter becomes: change has what is sent of template, connection and config.
TemplateChanges_Mut(a, change) ==
  IF change.template # None \/ change.connection # None
  THEN [template |-> IF change.template = None THEN a.template ELSE change.template,
        connection |-> IF change.connection = None THEN a.connection ELSE change.connection, config |-> a.config]
  ELSE [a EXCEPT !.config = change.config]

TemplateChanges(a, change) ==
  LET named == IF change.template = None THEN a.template ELSE change.template
      connection == IF change.connection = None THEN a.connection ELSE change.connection
  IN IF change.template = None /\ change.connection = None
     THEN [template |-> IF change.config = a.config THEN a.template ELSE None,
           connection |-> a.connection, config |-> change.config]
     ELSE IF /\ named # None /\ rows[named].state = "released"
             /\ change.config \in {None, MergeConfig(rows[named].content, connection)}
     THEN [template |-> named, connection |-> connection, config |-> MergeConfig(rows[named].content, connection)]
     ELSE a

ConfigureAdapter(a, change) ==
  /\ users' = [users EXCEPT ![a] = TemplateChanges(users[a], change)]
  /\ users' # users
  /\ UNCHANGED <<catalogue, rows, writing, tickets, defEdits, approved>>

AdapterChanges ==
  [template : Kept \cup {None}, connection : Connection \cup {None}, config : {None}]
  \cup [template : {None}, connection : {None}, config : {MergeConfig(c, d) : c \in Content, d \in Connection}]

-----------------------------------------------------------------------------
(* Report templates.                                                        *)

CreateLayout(p, c) == /\ Kept = {} /\ c \in Sound /\ Added(Draft(p, c, 1)) /\ Untouched

UpdateLayout(i, seen, c) ==
  CheckVersion(i, seen) /\ MayEdit(i) /\ c \in Sound /\ Submit(i, c, rows[i].by, rows[i].rv + 1)

ReleaseLayout(i, seen, p) ==
  /\ CheckVersion(i, seen) /\ rows[i].state = "draft"
  /\ rows[i].by # p
  /\ rows' = Released(i) /\ Approve(i, p)
  /\ Untouched

ReviseLayout(i, p) ==
  /\ rows[i].state = "released" /\ In("draft") = {}
  /\ Added(Draft(p, rows[i].content, NewestVersion + 1))
  /\ Untouched

\* A draft is given up the same way as a released one.
RetireLayout(i, seen) ==
  /\ CheckVersion(i, seen) /\ rows[i].state # "retired"
  /\ rows' = Retired(i)
  /\ UNCHANGED approved /\ Untouched

\* The layout a report is made with; a report keeps a copy of it.
Resolve == {i \in In("released") : \A n \in In("released") : n <= i}

MakeReport(u) ==
  /\ \E i \in Resolve : users' = [users EXCEPT ![u] = [ref |-> i, content |-> rows[i].content]]
  /\ UNCHANGED <<catalogue, rows, writing, tickets, defEdits, approved>>

-----------------------------------------------------------------------------
(* Metrics. Versions are named by people; values refer to a version.        *)

ValuesOf(i) == {u \in User : users[u] # None /\ users[u].ref = i}

CreateMetric(p, c, version) ==
  /\ \A i \in Kept : rows[i].version # version
  /\ c \in Sound
  /\ Added([Draft(p, c, version) EXCEPT !.state = "active"])
  /\ Untouched

UpdateMetric_Mut(i, c) == Edit /\ rows[i].state = "active" /\ c \in Sound /\ Submit(i, c, rows[i].by, rows[i].rv)

\* Nothing refers to it yet. A retired one is changed, too.
UpdateMetric(i, c) == Edit /\ ValuesOf(i) = {} /\ c \in Sound /\ Submit(i, c, rows[i].by, rows[i].rv)

RetireMetric(i) ==
  /\ rows' = [rows EXCEPT ![i].state = "retired"]
  /\ UNCHANGED approved /\ Untouched

\* A value arrives for a version, in use or retired (analysis_service).
RecordValue(u, i) ==
  /\ users[u] = None
  /\ users' = [users EXCEPT ![u] = [ref |-> i, contents |-> Sayings(i)]]
  /\ UNCHANGED <<catalogue, rows, writing, tickets, defEdits, approved>>

-----------------------------------------------------------------------------
NewUser ==
  CASE catalogue = "method" -> [state |-> "draft", ref |-> None, seen |-> {}, made |-> {}]
    [] catalogue = "template" -> [template |-> None, connection |-> CHOOSE d \in Connection : TRUE, config |-> None]
    [] OTHER -> None

DefinitionInit ==
  /\ catalogue \in Catalogues
  /\ rows = <<>> /\ approved = <<>>
  /\ users = [u \in User |-> NewUser]
  /\ writing = {} /\ tickets = {}
  /\ defEdits = 0

MethodNext ==
  /\ catalogue = "method"
  /\ \/ \E p \in Person, c \in Content : CreateMethod(p, c)
     \/ \E i \in Kept, seen \in {None} \cup 1..3, c \in Content : UpdateMethod(i, seen, c)
     \/ \E i \in Kept, p \in Person : ReleaseMethod(i, rows[i].rv, p) \/ ReviseMethod(i, p)
     \/ \E i \in Kept : RetireMethod(i, None) \/ DeleteMethod(i)
     \/ \E r \in User : UseMethod(r)

TemplateNext ==
  /\ catalogue = "template"
  /\ \/ \E p \in Person, c \in Content : CreateTemplate(p, c) \/ ImportTemplate(p, c)
     \/ \E i \in Kept, c \in Content, p \in Person : UpdateTemplate(i, rows[i].rv, c, p)
     \/ \E i \in Kept, p \in Person : ReleaseTemplate(i, None, p) \/ ReviseTemplate(i, p)
     \/ \E i \in In("draft"), p \in Person : SignTemplate(i, p)
     \/ \E i \in Kept : RetireTemplate(i, None) \/ DeleteTemplate(i)
     \/ \E a \in User, change \in AdapterChanges : ConfigureAdapter(a, change)

LayoutNext ==
  /\ catalogue = "layout"
  /\ \/ \E p \in Person, c \in Content : CreateLayout(p, c)
     \/ \E i \in Kept, c \in Content : UpdateLayout(i, rows[i].rv, c)
     \/ \E i \in Kept, p \in Person : ReleaseLayout(i, None, p) \/ ReviseLayout(i, p)
     \/ \E i \in Kept : RetireLayout(i, rows[i].rv)
     \/ \E u \in User : MakeReport(u)

MetricNext ==
  /\ catalogue = "metric"
  /\ \/ \E p \in Person, c \in Content, version \in 1..MaxRows : CreateMetric(p, c, version)
     \/ \E i \in Kept, c \in Content : UpdateMetric(i, c)
     \/ \E i \in Kept : RetireMetric(i)
     \/ \E u \in User, i \in Kept : RecordValue(u, i)

DefinitionNext == MethodNext \/ TemplateNext \/ LayoutNext \/ MetricNext \/ \E w \in writing : Commit(w)

-----------------------------------------------------------------------------
(* Properties.                                                              *)

\* One version is in force at a time. What was approved says for good what it said then, or
\* what an update that had checked the draft by then writes into it afterwards, and nothing
\* else; and somebody approved it who did not start it (method_service.py:154, :184,
\* report_template_service.py:137, :162).
InForceAsApproved ==
  catalogue # "metric" =>
    /\ Cardinality(In("released")) <= 1
    /\ \A i \in Kept : approved[i] # None =>
         /\ rows[i].state # "draft"
         /\ rows[i].content \in approved[i].contents
         /\ approved[i].by # rows[i].by \/ approved[i].by \in SelfApprovers

\* A recipe finds the method it refers to, and its batches were made with what it said when
\* the recipe was released, or with an update that was under way then (method_service.py:240).
MethodsStand ==
  catalogue = "method" => \A r \in User :
    /\ users[r].state # "retired" /\ users[r].ref # None => users[r].ref \in Kept
    /\ users[r].state # "draft" => users[r].made \subseteq users[r].seen

\* An adapter that says it is run by a template has a configuration that template was
\* approved with, in the sense above, and none of those recorded as its authors released
\* it (template_service.py:137, :285, station_service.py:735).
TemplatesStand ==
  catalogue = "template" => \A a \in User : users[a].template # None =>
    LET i == users[a].template IN
    /\ i \in Kept /\ approved[i] # None
    /\ \E c \in approved[i].contents : users[a].config = MergeConfig(c, users[a].connection)
    /\ approved[i].by \notin approved[i].hands \/ approved[i].by \in SelfApprovers

\* A value is read under the definition it was recorded under, or under an update of it that
\* had found no value by then (metric_service.py:103).
MetricsStand ==
  catalogue = "metric" => \A u \in User : users[u] # None => rows[users[u].ref].content \in users[u].contents

DefinitionsHold == InForceAsApproved /\ MethodsStand /\ TemplatesStand /\ MetricsStand
=============================================================================
