----------------------------- MODULE ModelsForm -----------------------------
(***************************************************************************)
(* The models tab of the settings dialog: the form that asks an endpoint    *)
(* which models it has and adds the chosen ones, and the list of models,    *)
(* which are switched on and off, tested and removed.  The answer of an     *)
(* endpoint is listed whatever the form says when it comes.  Keys and       *)
(* numbers of the form are left out; the numeric drafts of the list and the *)
(* load and the save of the settings are in SettingsDialog.                 *)
(***************************************************************************)
EXTENDS Naturals, FiniteSets

CONSTANTS
    Formats, Urls,  \* what the form can say
    DefaultUrl,     \* the url that a format sets
    FirstFormat,    \* the format of a new form
    Names,          \* the models that every endpoint has
    MaxAdds,        \* bound on the models added
    MaxTurns        \* bound on the changes of the form, switches and tests

ASSUME ModelsFormAssumption ==
    /\ DefaultUrl \in [Formats -> Urls] /\ FirstFormat \in Formats
    /\ {MaxAdds, MaxTurns} \subseteq Nat

VARIABLES
    form,       \* formFormat, formBaseUrl
    asked,      \* the endpoint that a fetch is out for, or NoEndpoint: fetching
    fetched,    \* fetchedModels; history: the endpoint that listed them, and
                \* whether the form had changed before it did
    selected,   \* selectedModels
    models,     \* the settings' models
    testing,    \* testingIds
    adds, turns

mvars == <<form, asked, fetched, selected, models, testing, adds, turns>>

Endpoints == [format: Formats, url: Urls]
NoEndpoint == [format |-> "", url |-> ""]
Lists == [names: SUBSET Names, by: Endpoints \cup {NoEndpoint}, late: BOOLEAN]
NoList == [names |-> {}, by |-> NoEndpoint, late |-> FALSE]
Entries == [id: (0 .. MaxAdds) \X Names, endpoint: Endpoints, list: Lists, enabled: BOOLEAN]

MTypeOK ==
    /\ form \in Endpoints /\ asked \in Endpoints \cup {NoEndpoint}
    /\ fetched \in Lists /\ selected \subseteq Names
    /\ models \subseteq Entries /\ testing \subseteq {m.id : m \in models}
    /\ adds \in 0 .. MaxAdds /\ turns \in 0 .. MaxTurns

NewForm == [format |-> FirstFormat, url |-> DefaultUrl[FirstFormat]]
MInit ==
    /\ form = NewForm /\ asked = NoEndpoint /\ fetched = NoList
    /\ selected = {} /\ models = {} /\ testing = {} /\ adds = 0 /\ turns = 0

Name(m) == m.id[2]
Key(m) == <<m.endpoint, Name(m)>>

-----------------------------------------------------------------------------
(* The form.                                                               *)

Turn == turns < MaxTurns /\ turns' = turns + 1

\* Even the format that is chosen already sets its url.
MutForgotten == fetched
Forgotten == NoList
handleFormatChange(f) ==
    /\ Turn /\ form' = [format |-> f, url |-> DefaultUrl[f]]
    /\ fetched' = Forgotten /\ selected' = {}
    /\ UNCHANGED <<asked, models, testing, adds>>
\* A typed url leaves the selection, which is shown with a list only.
TypeUrl(u) ==
    /\ Turn /\ u # form.url /\ form' = [form EXCEPT !.url = u] /\ fetched' = NoList
    /\ UNCHANGED <<asked, selected, models, testing, adds>>

handleFetchModels ==
    /\ asked = NoEndpoint /\ asked' = form /\ fetched' = NoList /\ selected' = {}
    /\ UNCHANGED <<form, models, testing, adds, turns>>
\* All that is listed is selected; an empty list and an error list nothing.
FetchReturns(names) ==
    /\ asked # NoEndpoint /\ asked' = NoEndpoint
    /\ IF names = {} THEN UNCHANGED <<fetched, selected>>
       ELSE /\ fetched' = [names |-> names, by |-> asked, late |-> form # asked]
            /\ selected' = names
    /\ UNCHANGED <<form, models, testing, adds, turns>>

toggleModel(n) ==
    /\ n \in fetched.names
    /\ selected' = IF n \in selected THEN selected \ {n} ELSE selected \cup {n}
    /\ UNCHANGED <<form, asked, fetched, models, testing, adds, turns>>
toggleAll ==
    /\ fetched # NoList
    /\ selected' = IF Cardinality(selected) = Cardinality(fetched.names) THEN {} ELSE fetched.names
    /\ UNCHANGED <<form, asked, fetched, models, testing, adds, turns>>

Entry(n, list) == [id |-> <<adds, n>>, endpoint |-> form, list |-> list, enabled |-> TRUE]
Adding == adds < MaxAdds /\ adds' = adds + 1

\* The chosen models that are not in the list yet are added.
Absent == {n \in selected : <<form, n>> \notin {Key(m) : m \in models}}
handleBatchAdd ==
    /\ Adding /\ fetched # NoList /\ selected # {}
    /\ models' = models \cup {Entry(n, fetched) : n \in Absent}
    /\ fetched' = NoList /\ selected' = {}
    /\ UNCHANGED <<form, asked, testing, turns>>
\* A typed name is added as it is.
handleAddCustom(n) ==
    /\ Adding /\ models' = models \cup {Entry(n, NoList)}
    /\ UNCHANGED <<form, asked, fetched, selected, testing, turns>>

\* Another tab, or the dialog is closed: the form is lost, and the answer too.
LeaveTab ==
    /\ Turn /\ form' = NewForm /\ asked' = NoEndpoint /\ fetched' = NoList /\ selected' = {}
    /\ testing' = {} /\ UNCHANGED <<models, adds>>

-----------------------------------------------------------------------------
(* The list.                                                               *)

ToggleEnabled(m) ==
    /\ Turn /\ models' = (models \ {m}) \cup {[m EXCEPT !.enabled = ~@]}
    /\ UNCHANGED <<form, asked, fetched, selected, testing, adds>>
deleteModel(m) ==
    /\ models' = models \ {m} /\ testing' = testing \ {m.id}
    /\ UNCHANGED <<form, asked, fetched, selected, adds, turns>>
handleTest(m) ==
    /\ Turn /\ m.id \notin testing /\ testing' = testing \cup {m.id}
    /\ UNCHANGED <<form, asked, fetched, selected, models, adds>>
TestReturns(id) ==
    /\ testing' = testing \ {id}
    /\ UNCHANGED <<form, asked, fetched, selected, models, adds, turns>>

MNext ==
    \/ \E f \in Formats : handleFormatChange(f)
    \/ \E u \in Urls : TypeUrl(u)
    \/ handleFetchModels \/ \E names \in SUBSET Names : FetchReturns(names)
    \/ \E n \in Names : toggleModel(n) \/ handleAddCustom(n)
    \/ toggleAll \/ handleBatchAdd \/ LeaveTab
    \/ \E m \in models : ToggleEnabled(m) \/ deleteModel(m) \/ handleTest(m)
    \/ \E id \in testing : TestReturns(id)
MSpec == MInit /\ [][MNext]_mvars

-----------------------------------------------------------------------------
(* Properties.                                                             *)

Listed == {m \in models : m.list # NoList}

\* A model that was chosen from a list is kept with the endpoint that listed it,
\* and once, however the form, the list and the models change in between; unless
\* the endpoint had answered after the form turned to another one.
ListedThere ==
    \A m \in Listed :
        /\ m.list.late \/ m.endpoint = m.list.by
        /\ \A l \in Listed : Key(l) = Key(m) => l = m

\* What does not hold: a late answer is listed under the form's new endpoint, and
\* what is added from it is stored with an endpoint that never listed it.
ListedThereAlways == \A m \in Listed : m.endpoint = m.list.by
=============================================================================
