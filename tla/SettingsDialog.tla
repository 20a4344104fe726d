--------------------------- MODULE SettingsDialog ---------------------------
(***************************************************************************)
(* The settings store and the pages that use it: the settings dialog of    *)
(* the list of workflows, with the numeric drafts of its models tab, and   *)
(* the model selector of a node in the editor.  A load or a save takes the *)
(* next number of settingsRequestSeq and its answer counts only while it   *)
(* is the newest request.                                                  *)
(***************************************************************************)
EXTENDS Naturals, Sequences, SequencesExt

CONSTANTS
    MaxEdits,    \* bound on the values that are ever typed, here or elsewhere
    MaxRequests, \* bound on the loads and saves in flight
    MaxOpens,    \* bound on the openings of the dialog, the editor and a node
    Others       \* whether another browser saves settings, too

ASSUME SettingsDialogAssumption ==
    {MaxEdits, MaxRequests, MaxOpens} \subseteq Nat /\ Others \in BOOLEAN

VARIABLES
    server,    \* the settings file
    settings,  \* the settings of the store
    loading,   \* the spinner, which disables Save
    requests,  \* loads and saves in flight
    place,     \* "list", "dialog", "editor", or "node": the selector is shown
    tab,       \* the tab of the dialog, kept when it is closed
    draft,     \* modelDrafts: what the field of the model shows
    values, opens  \* values typed and openings, up to their bounds

svars == <<server, settings, loading, requests, place, tab, draft, values, opens>>

SettingsTabs == {"general", "display", "models", "strategy", "debug"}

\* The settings: the one model, an id and its context window, and the others as one
\* value.  A draft can also be a text that is no number: 0.
\* The server counts its changes; the store has the count it was told last.
NoModel == <<0, 0>>
Default == 1
Models == {NoModel} \cup ((1 .. MaxEdits) \X (1 .. MaxEdits))
Settings == [general: 0 .. MaxEdits, model: Models, changes: 0 .. MaxEdits + MaxOpens]
Request == [op: {"load", "save"}, newest: BOOLEAN, st: {"sent", "ok", "failed"}, row: Settings]

STypeOK ==
    /\ server \in Settings /\ settings \in Settings /\ loading \in BOOLEAN
    /\ requests \in Seq(Request) /\ Len(requests) <= MaxRequests
    /\ place \in {"list", "dialog", "editor", "node"} /\ tab \in SettingsTabs
    /\ draft \in Models \cup ((1 .. MaxEdits) \X {0})
    /\ values \in 0 .. MaxEdits /\ opens \in 0 .. MaxOpens

SInit ==
    /\ \E m \in {NoModel, <<1, 1>>} : server = [general |-> 0, model |-> m, changes |-> 0]
    /\ settings = [general |-> 0, model |-> NoModel, changes |-> 0]
    /\ loading = FALSE /\ requests = <<>> /\ place = "list" /\ tab = "general"
    /\ draft = NoModel /\ values = 1 /\ opens = 0

-----------------------------------------------------------------------------
(* The requests.                                                           *)

\* A new number: the requests before are not the newest any more.
Issue(op, row) ==
    /\ Len(requests) < MaxRequests
    /\ requests' = Append([i \in DOMAIN requests |-> [requests[i] EXCEPT !.newest = FALSE]],
                          [op |-> op, newest |-> TRUE, st |-> "sent", row |-> row])
    /\ loading' = TRUE
loadFromServer == Issue("load", settings)

\* The file is rewritten as a whole.
ServeSettings(i) ==
    /\ requests[i].st = "sent"
    /\ server' = IF requests[i].op = "save"
                 THEN [requests[i].row EXCEPT !.changes = server.changes + 1] ELSE server
    /\ requests' = [requests EXCEPT ![i].st = "ok", ![i].row = server']
    /\ UNCHANGED <<settings, loading, place, tab, draft, values, opens>>
FailSettings(i) ==
    /\ requests[i].st = "sent"
    /\ requests' = [requests EXCEPT ![i].st = "failed"]
    /\ UNCHANGED <<server, settings, loading, place, tab, draft, values, opens>>

\* The models tab: a draft is kept while its model is, and a number is written back.
Drafted(row) == place = "dialog" /\ tab = "models" /\ row.model # NoModel
Kept(row) == IF Drafted(row) /\ draft[1] = row.model[1] THEN draft
             ELSE IF Drafted(row) THEN row.model ELSE NoModel
WrittenBack(row) ==
    IF Drafted(row) /\ Kept(row)[2] # 0 THEN [row EXCEPT !.model = Kept(row)] ELSE row

MutCounts(r) == TRUE
Counts(r) == r.newest
SettingsAnswer(i) ==
    /\ requests[i].st # "sent"
    /\ requests' = RemoveAt(requests, i)
    /\ LET r == requests[i]
       IN  /\ loading' = IF Counts(r) THEN FALSE ELSE loading
           /\ IF Counts(r) /\ r.st = "ok"
              THEN settings' = WrittenBack(r.row) /\ draft' = Kept(r.row)
              ELSE UNCHANGED <<settings, draft>>
    /\ UNCHANGED <<server, place, tab, values, opens>>

\* The selector asks for models whenever it sees none and nothing is loading.
Asks == place = "node" /\ ~loading /\ settings.model = NoModel
SelectorLoads ==
    /\ Asks /\ loadFromServer
    /\ UNCHANGED <<server, settings, place, tab, draft, values, opens>>

-----------------------------------------------------------------------------
(* The user.                                                               *)

FieldLeft == draft = NoModel \/ draft[2] # 0  \* no such text is being typed
Opening == opens < MaxOpens /\ opens' = opens + 1
OpenModal ==
    /\ Opening /\ place = "list" /\ place' = "dialog" /\ loadFromServer
    /\ draft' = IF tab = "models" THEN settings.model ELSE NoModel
    /\ UNCHANGED <<server, settings, tab, values>>
\* Closing reverts nothing.
CloseModal ==
    /\ place = "dialog" /\ FieldLeft /\ place' = "list" /\ draft' = NoModel
    /\ UNCHANGED <<server, settings, loading, requests, tab, values, opens>>
ChooseTab(t) ==
    /\ place = "dialog" /\ FieldLeft /\ t # tab /\ tab' = t
    /\ draft' = IF t = "models" THEN settings.model ELSE NoModel
    /\ UNCHANGED <<server, settings, loading, requests, place, values, opens>>
\* The editor loads the settings when it is opened; the list mounts a new dialog.
OpenEditor ==
    /\ Opening /\ place = "list" /\ place' = "editor" /\ loadFromServer /\ tab' = "general"
    /\ UNCHANGED <<server, settings, draft, values>>
OpenNode ==
    /\ Opening /\ place = "editor" /\ place' = "node"
    /\ UNCHANGED <<server, settings, loading, requests, tab, draft, values>>
Back ==
    /\ place \in {"editor", "node"} /\ place' = "list"
    /\ UNCHANGED <<server, settings, loading, requests, tab, draft, values, opens>>

Typing == place = "dialog" /\ values < MaxEdits /\ values' = values + 1
OtherSetting ==
    /\ Typing /\ settings' = [settings EXCEPT !.general = values + 1]
    /\ UNCHANGED <<server, loading, requests, place, tab, draft, opens>>
updateGeneral == tab = "general" /\ OtherSetting
updateDisplay == tab = "display" /\ OtherSetting
updateModelStrategy == tab = "strategy" /\ OtherSetting
updateDebugMode == tab = "debug" /\ OtherSetting

\* A number that is typed for the model is written at once, any other text when the
\* field is left, as the default: which the user's next click does.
updateModel ==
    /\ Typing /\ tab = "models" /\ settings.model # NoModel
    /\ draft' = <<settings.model[1], values + 1>>
    /\ settings' = [settings EXCEPT !.model = draft']
    /\ UNCHANGED <<server, loading, requests, place, tab, opens>>
TypeText ==
    /\ place = "dialog" /\ tab = "models" /\ settings.model # NoModel /\ draft[2] # 0
    /\ draft' = <<settings.model[1], 0>>
    /\ UNCHANGED <<server, settings, loading, requests, place, tab, values, opens>>
commitModelNumericField ==
    /\ ~FieldLeft /\ draft' = <<draft[1], Default>>
    /\ settings' = [settings EXCEPT !.model = draft']
    /\ UNCHANGED <<server, loading, requests, place, tab, values, opens>>
addModel ==
    /\ Typing /\ tab = "models" /\ settings.model = NoModel
    /\ draft' = <<values + 1, values + 1>>
    /\ settings' = [settings EXCEPT !.model = draft']
    /\ UNCHANGED <<server, loading, requests, place, tab, opens>>
removeModel ==
    /\ place = "dialog" /\ tab = "models" /\ settings.model # NoModel /\ FieldLeft
    /\ draft' = NoModel /\ settings' = [settings EXCEPT !.model = NoModel]
    /\ UNCHANGED <<server, loading, requests, place, tab, values, opens>>

\* Save is disabled while something loads or a save is out.
Save ==
    /\ Opening /\ place = "dialog" /\ FieldLeft /\ ~loading
    /\ \A i \in DOMAIN requests : requests[i].op # "save"
    /\ Issue("save", settings)
    /\ UNCHANGED <<server, settings, place, tab, draft, values>>

OtherSaves ==
    /\ Others /\ values < MaxEdits /\ values' = values + 1
    /\ server' = [server EXCEPT !.general = values + 1, !.changes = @ + 1]
    /\ UNCHANGED <<settings, loading, requests, place, tab, draft, opens>>

SNext ==
    \/ \E i \in DOMAIN requests : ServeSettings(i) \/ FailSettings(i) \/ SettingsAnswer(i)
    \/ SelectorLoads \/ OpenModal \/ CloseModal \/ OpenEditor \/ OpenNode \/ Back
    \/ \E t \in SettingsTabs : ChooseTab(t)
    \/ updateGeneral \/ updateDisplay \/ updateModelStrategy \/ updateDebugMode
    \/ updateModel \/ TypeText \/ commitModelNumericField \/ addModel \/ removeModel \/ Save \/ OtherSaves

\* The server answers and the browser handles the answer; the effect has run
\* before anything else does.
SFairness ==
    /\ WF_svars(\E i \in DOMAIN requests : ServeSettings(i))
    /\ WF_svars(\E i \in DOMAIN requests : SettingsAnswer(i))
    /\ WF_svars(SelectorLoads)
SSpec == SInit /\ [][SNext]_svars /\ SFairness

-----------------------------------------------------------------------------
(* Properties.                                                             *)

\* What the server has told is never replaced by an older state of its file,
\* however the answers of loads and saves overtake each other.
NeverBack == [][settings'.changes >= settings.changes]_svars

\* What does not hold: the selector asks for ever when no model is configured.
SelectorRests == <>[](requests = <<>>)
=============================================================================
