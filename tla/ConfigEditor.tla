---------------------------- MODULE ConfigEditor ----------------------------
(***************************************************************************)
(* A session of the jkconfig editor, in ostool menuconfig (run.rs) or as   *)
(* the program jkconfig (main.rs): the file is read, keys walk through the *)
(* menus and change the document, and the way the editor ends decides what *)
(* becomes of the file.                                                    *)
(*                                                                         *)
(* Typing in a field is one step that leaves some text in it; colours,     *)
(* scrolling and messages are left out.  List positions count from 1, and  *)
(* 0 is a list without a selection.                                        *)
(***************************************************************************)
EXTENDS ConfigDocument

CONSTANTS
  Files,      \* what the configuration file may hold at the start
  Broken,     \* what is left of a file whose write failed
  Texts,      \* what a user types
  Digits,     \* of these, what a number field accepts
  Hooks,      \* the paths with a hook, and its kind: "package", "features" or "target"
  PackagePath,\* the path that the hooks read the package from
  Options,    \* of a hook path the choices it finds: of "features" for every package, of "target"
              \* those that it may find
  MaxEdits,   \* bound: changes of the document
  MaxModals   \* bound: dialogs on top of each other

ASSUME EditorAssumption == MaxEdits \in Nat /\ MaxModals \in Nat \ {0} 

VARIABLES
  program,   \* "ostool" or "jkconfig", once it matters: None as long as it may be either
  file,      \* the file: a content, None if it does not exist, or Broken
  backup,    \* the copy that persist makes, or None
  doc,       \* AppState::document
  nav,       \* AppState::nav_stack
  dirty,     \* AppState::needs_save
  focus, inline,   \* TuiState::focus and ::inline_editor
  modals,    \* TuiState::modal_stack
  phase,     \* "edit", "ended" (the editor has left with its state), "failed" or "done"
  loaded,    \* history: the file at the start
  read,      \* history: it could be read
  edits,     \* changes so far
  touched,   \* history: the elements that the user changed
  confirmed  \* history: the user has confirmed to save

vars == <<tree, program, file, backup, doc, nav, dirty, focus, inline, modals, phase, loaded, read, edits,
          touched, confirmed>>
uiVars == <<nav, focus, inline, modals>>
fileVars == <<tree, program, file, backup, loaded, read>>
editVars == <<edits, touched>>

Modal(kind, id, options, at, more) == [kind |-> kind, id |-> id, options |-> options, at |-> at, more |-> more]

\* A file is read into a new document.  For ostool one that is there and cannot be read (permissions, an
\* I/O error, bytes that are no text) is an empty one; jkconfig ends.
Start(f, readable) ==
  [content |-> IF f = None THEN None ELSE Spread(f, <<>>), read |-> readable] @@ Load(IF readable THEN f ELSE None)
Starts == {Start(f, TRUE) : f \in Files} \cup {Start(f, FALSE) : f \in Files \ {None}}

\* Init: the file has been opened; one that the schema refuses ends the program.
Init ==
  /\ backup = None
  /\ tree = TryFrom
  /\ \E s \in Starts :
       /\ file = s.content /\ doc = s.doc /\ phase = (IF s.ok THEN "edit" ELSE "failed")
       /\ read = s.read /\ program = IF s.read THEN None ELSE "ostool"
  /\ nav = <<[path |-> <<>>, at |-> 1]>> /\ dirty = FALSE
  /\ focus = "Navigation" /\ inline = None /\ modals = <<>>
  /\ loaded = file /\ edits = 0 /\ touched = {} /\ confirmed = FALSE

\* Every part of the editor keeps its type.
TypeOK ==
  /\ program \in {None, "ostool", "jkconfig"} /\ DOMAIN doc = Ids
  /\ \A id \in Ids : CASE Kind(id) \in {"menu", "boolean"} -> doc[id] \in BOOLEAN
                       [] Kind(id) = "oneof" -> doc[id] \in 0..Len(tree[id].subs)
                       [] Kind(id) = "enum" -> doc[id] \in Range(tree[id].enum) \cup {None}
                       [] Kind(id) \in {"integer", "number"} -> doc[id] \in Int \cup {None}
                       [] OTHER -> TRUE
  /\ dirty \in BOOLEAN /\ confirmed \in BOOLEAN /\ read \in BOOLEAN /\ focus \in {"Navigation", "Detail"}
  /\ inline \in Ids \cup {None} /\ touched \subseteq Ids /\ edits \in 0..MaxEdits
  /\ Len(modals) <= MaxModals /\ phase \in {"edit", "ended", "failed", "done"}

-----------------------------------------------------------------------------
(***************************************************************************)
(* What the keys work on.                                                  *)
(***************************************************************************)
Top == Last(nav)
Row == {tree[m].subs[Top.at] : m \in {n \in MenuAt(doc, Top.path) : Top.at \in DOMAIN tree[n].subs}}

\* selected_path and document.get: what the path of the current row resolves to.
Chosen == UNION {Resolve(doc, tree[r].path) : r \in Row}
CanFocusDetail(id) == Kind(id) \in {"string", "integer", "number"}

Browsing == phase = "edit" /\ modals = <<>>
Typing == focus = "Detail" /\ inline # None
AtMenu == Browsing /\ ~Typing
Dialog(kind) == phase = "edit" /\ modals # <<>> /\ Last(modals).kind = kind
TopModal == Last(modals)

Clamp(i, n) == IF i < 1 THEN 1 ELSE IF i > n THEN n ELSE i
LeaveDetail == focus' = "Navigation" /\ inline' = None
Open(modal) == Len(modals) < MaxModals /\ modals' = Append(modals, modal)
Close == modals' = Front(modals)
Change(modal) == modals' = Append(Front(modals), modal)

\* set_string, set_integer, set_enum_variant, set_string_array, set_oneof_index, toggle_bool,
\* toggle_menu_set and clear_optional: the document changes and is to be saved.
Set(id, v) ==
  /\ edits < MaxEdits /\ edits' = edits + 1
  /\ doc' = [doc EXCEPT ![id] = v] /\ dirty' = TRUE /\ touched' = touched \cup {id}

\* A key handler returns an error: the editor ends and nothing is saved.
KeyFails ==
  /\ phase' = "failed"
  /\ UNCHANGED <<fileVars, doc, dirty, uiVars, editVars, confirmed>>

Frame == UNCHANGED <<fileVars, phase, confirmed>>
DocFrame == Frame /\ UNCHANGED <<doc, dirty, editVars>>

ConfirmSave == Modal("confirm", <<>>, <<"save">>, 1, TRUE)
ConfirmQuit == Modal("confirm", <<>>, <<"quit">>, 1, FALSE)

\* AppMode::TooSmall: while the terminal is too small q and Esc ask to quit, whatever is open, and
\* every other key is ignored.
QuitTooSmall == phase = "edit" /\ Open(ConfirmQuit) /\ DocFrame /\ UNCHANGED <<nav, focus, inline>>

-----------------------------------------------------------------------------
(***************************************************************************)
(* handle_key_event.                                                       *)
(***************************************************************************)
Move(d) ==
  /\ AtMenu
  /\ \E m \in MenuAt(doc, Top.path) :
       /\ tree[m].subs # <<>>
       /\ nav' = [nav EXCEPT ![Len(nav)].at = Clamp(@ + d, Len(tree[m].subs))]
  /\ LeaveDetail /\ DocFrame /\ UNCHANGED modals

Back ==
  /\ AtMenu
  /\ \/ Len(nav) > 1 /\ nav' = Front(nav) /\ LeaveDetail /\ UNCHANGED modals
     \/ Len(nav) = 1 /\ Open(ConfirmQuit) /\ UNCHANGED <<nav, focus, inline>>
  /\ DocFrame

\* q, s and h; Ctrl-S works in the field as well, what is typed there is not taken over.
OpenDialog ==
  /\ \/ AtMenu /\ \E m \in {ConfirmQuit, ConfirmSave, Modal("help", <<>>, <<>>, 1, FALSE)} : Open(m)
     \/ Browsing /\ Typing /\ Open(ConfirmSave)
  /\ DocFrame /\ UNCHANGED <<nav, focus, inline>>

OpenOneOf(id) == Open(Modal("oneof", id, tree[id].subs, IF doc[id] = 0 THEN 1 ELSE doc[id], FALSE))

\* begin_inline_editor shows the present value.
Begin(id) == inline' = id

Tab(id) ==
  /\ AtMenu
  /\ \/ Kind(id) = "oneof" /\ OpenOneOf(id) /\ UNCHANGED <<focus, inline>>
     \/ /\ CanFocusDetail(id) /\ UNCHANGED modals
        /\ focus' = IF focus = "Navigation" THEN "Detail" ELSE "Navigation"
        /\ IF focus = "Navigation" /\ inline = None THEN Begin(id) ELSE UNCHANGED inline
  /\ DocFrame /\ UNCHANGED nav

\* c: what is required cannot be cleared.
ClearOptional(id) ==
  /\ AtMenu /\ ~tree[id].req
  /\ Set(id, Unset(id))
  /\ Frame /\ UNCHANGED uiVars

\* m
ToggleMenuSet(id) ==
  /\ AtMenu /\ Kind(id) = "menu" /\ ~tree[id].req
  /\ Set(id, ~doc[id])
  /\ Frame /\ UNCHANGED uiVars

\* Space, or Enter on a boolean.
ToggleBool(id) ==
  /\ AtMenu /\ Kind(id) = "boolean"
  /\ Set(id, ~doc[id])
  /\ Frame /\ UNCHANGED uiVars

\* Where a list of choices starts: at the present value, if it is one of them.
Place(id, options) ==
  IF \E i \in DOMAIN options : options[i] = doc[id] THEN CHOOSE i \in DOMAIN options : options[i] = doc[id] ELSE 1

\* Enter on what has no hook.
Plain(id) == AtMenu /\ tree[id].path \notin DOMAIN Hooks

\* A menu that is not set is set by entering it.
EnterMenu(id) ==
  /\ Plain(id)
  /\ MenuAt(doc, tree[id].path) # {}
  /\ nav' = Append(nav, [path |-> tree[id].path, at |-> 1])
  /\ IF Kind(id) = "menu" /\ IsNone(doc, id) THEN Set(id, TRUE) ELSE UNCHANGED <<doc, dirty, editVars>>
  /\ LeaveDetail /\ Frame /\ UNCHANGED modals

Activate(id) ==
  /\ Plain(id)
  /\ \/ /\ Kind(id) = "oneof" /\ MenuAt(doc, tree[id].path) = {}
        /\ OpenOneOf(id) /\ UNCHANGED <<focus, inline>>
     \/ CanFocusDetail(id) /\ focus' = "Detail" /\ Begin(id) /\ UNCHANGED modals
     \/ /\ Kind(id) = "enum" /\ UNCHANGED <<focus, inline>>
        /\ LET e == tree[id].enum
           IN Open(Modal("single", id, e, Place(id, e),
                         ~tree[id].req))
     \/ Kind(id) = "array" /\ Open(Modal("array", id, <<>>, 1, FALSE)) /\ UNCHANGED <<focus, inline>>
  /\ DocFrame /\ UNCHANGED nav

-----------------------------------------------------------------------------
(***************************************************************************)
(* The hooks of config_hooks.rs; cargo and rustup may fail.                *)
(***************************************************************************)
Hooked(id, kind) ==
  AtMenu /\ tree[id].path \in DOMAIN Hooks /\ Hooks[tree[id].path] = kind
Package == {doc[p] : p \in Resolve(doc, PackagePath)} \ {None, ""}

OpenChoice(id, options) ==
  /\ Open(Modal("single", id, options, Place(id, options), FALSE))
  /\ LeaveDetail /\ DocFrame /\ UNCHANGED nav

\* package_select_hook: no package is found when cargo fails.
OpenPackages(id) == Hooked(id, "package") /\ \E options \in {Options[tree[id].path], <<>>} : OpenChoice(id, options)

\* target_select_hook: the targets that the package documents, or else the ones of rustup.
OpenTargets(id) == Hooked(id, "target") /\ \E options \in Options[tree[id].path] : OpenChoice(id, options)

\* feature_select_hook: without a package there is only a message.
OpenFeatures(id) ==
  /\ Hooked(id, "features")
  /\ \/ Package = {} /\ UNCHANGED modals
     \/ \E p \in Package \cap DOMAIN Options[tree[id].path] :
          Open(Modal("multi", id, Options[tree[id].path][p], 1, Range(doc[id])))
  /\ LeaveDetail /\ DocFrame /\ UNCHANGED nav

\* cargo metadata or rustup fails, or the package is not in the workspace.
HookFails(id) ==
  /\ Hooked(id, "target") \/ (Hooked(id, "features") /\ Package # {})
  /\ KeyFails

-----------------------------------------------------------------------------
(***************************************************************************)
(* The field, handle_inline_editor_key_event.                              *)
(***************************************************************************)
LeaveField == Browsing /\ Typing /\ LeaveDetail /\ DocFrame /\ UNCHANGED <<nav, modals>>

\* can_accept_char
Accepted(id, text) == Kind(id) = "string" \/ text \in Digits
\* parse_i64 and parse_f64
Parsed(id, text) == IF Kind(id) = "string" THEN text ELSE IF text \in DOMAIN NumberOf THEN NumberOf[text] ELSE None

\* commit_inline_editor with the text that was typed; Tab also leaves the field.
CommitField(text) ==
  /\ Browsing /\ Typing /\ Accepted(inline, text) /\ Parsed(inline, text) # None
  /\ Set(inline, Parsed(inline, text))
  /\ inline' = None /\ focus' \in {"Detail", "Navigation"}
  /\ Frame /\ UNCHANGED <<nav, modals>>

\* The text is no number.
CommitFails(text) == Browsing /\ Typing /\ Accepted(inline, text) /\ Parsed(inline, text) = None /\ KeyFails

-----------------------------------------------------------------------------
(***************************************************************************)
(* Dialogs, handle_modal_key_event.                                        *)
(***************************************************************************)
UiRest == UNCHANGED <<nav, focus, inline>>

Escape == phase = "edit" /\ modals # <<>> /\ Close /\ DocFrame /\ UiRest

\* list_previous and list_next
Step(at, d, n) == IF n = 0 THEN 0 ELSE IF at = 0 THEN 1 ELSE Clamp(at + d, n)
MoveInList(d) ==
  /\ Dialog("single") \/ Dialog("multi") \/ Dialog("oneof")
  /\ Change([TopModal EXCEPT !.at = Step(@, d, Len(TopModal.options))])
  /\ DocFrame /\ UiRest

\* apply_single_select_binding
PickOne ==
  /\ Dialog("single") /\ TopModal.at \in DOMAIN TopModal.options
  /\ Set(TopModal.id, TopModal.options[TopModal.at])
  /\ Close /\ Frame /\ UiRest

\* c, where the setting is optional
PickNone ==
  /\ Dialog("single") /\ TopModal.more
  /\ Set(TopModal.id, Unset(TopModal.id))
  /\ Close /\ Frame /\ UiRest

\* Enter on an empty list whose selection was never moved.
PickFails == (Dialog("single") \/ Dialog("oneof")) /\ TopModal.at # 0 /\ TopModal.options = <<>> /\ KeyFails

ToggleChoice ==
  /\ Dialog("multi") /\ TopModal.at \in DOMAIN TopModal.options
  /\ LET o == TopModal.options[TopModal.at]
     IN Change([TopModal EXCEPT !.more = IF o \in @ THEN @ \ {o} ELSE @ \cup {o}])
  /\ DocFrame /\ UiRest

\* ordered_multi_selection: choices that are no longer offered are dropped.
PickMany ==
  /\ Dialog("multi")
  /\ Set(TopModal.id, SelectSeq(TopModal.options, LAMBDA o : o \in TopModal.more))
  /\ Close /\ Frame /\ UiRest

\* set_oneof_index
PickVariant ==
  /\ Dialog("oneof") /\ TopModal.at \in DOMAIN TopModal.options
  /\ LET v == TopModal.options[TopModal.at]
         init == CASE Kind(v) = "menu" -> TRUE [] Kind(v) = "enum" -> tree[v].enum[1] [] OTHER -> doc[v]
     IN /\ edits < MaxEdits /\ edits' = edits + 1
        /\ doc' = [doc EXCEPT ![TopModal.id] = TopModal.at, ![v] = init]
        /\ dirty' = TRUE /\ touched' = touched \cup {TopModal.id}
  /\ Close /\ Frame /\ UiRest

\* refresh_top_modal before every key: the position stays inside the array.
Items == doc[TopModal.id]
Position == IF Items = <<>> THEN 1 ELSE Clamp(TopModal.at, Len(Items))
Refreshed == [TopModal EXCEPT !.at = Position]

MoveInArray(d) ==
  /\ Dialog("array") /\ Items # <<>>
  /\ Change([TopModal EXCEPT !.at = Clamp(Position + d, Len(Items))])
  /\ DocFrame /\ UiRest

\* a, and Enter on an item: open_array_input_modal keeps the array as it is now.
OpenItem ==
  /\ Dialog("array") /\ Len(modals) < MaxModals
  /\ \E at \in {Len(Items) + 1} \cup (IF Items = <<>> THEN {} ELSE {Position}) :
       modals' = Front(modals) \o <<Refreshed, Modal("input", TopModal.id, Items, at, FALSE)>>
  /\ DocFrame /\ UiRest

\* apply_input_binding: an empty text is refused.
SetItem(text) ==
  /\ Dialog("input") /\ text # ""
  /\ Set(TopModal.id, IF TopModal.at \in DOMAIN TopModal.options THEN [TopModal.options EXCEPT ![TopModal.at] = text]
                    ELSE Append(TopModal.options, text))
  /\ Close /\ Frame /\ UiRest

OpenDelete ==
  /\ Dialog("array") /\ Items # <<>> /\ Len(modals) < MaxModals
  /\ modals' = Front(modals) \o <<Refreshed, Modal("confirm", TopModal.id, <<"delete">>, Position, FALSE)>>
  /\ DocFrame /\ UiRest

\* Left, Right and Tab in a confirmation.
Answer ==
  /\ Dialog("confirm") /\ Change([TopModal EXCEPT !.more = ~@])
  /\ DocFrame /\ UiRest

Confirmed(action) == Dialog("confirm") /\ TopModal.more /\ TopModal.options = <<action>>

\* apply_confirm_action closes the confirmation and the list behind it.
DeleteItem ==
  /\ Confirmed("delete") /\ TopModal.at \in DOMAIN Items
  /\ Set(TopModal.id, RemoveAt(Items, TopModal.at))
  /\ modals' = SubSeq(modals, 1, Len(modals) - 2) /\ Frame /\ UiRest

SaveAndExit ==
  /\ Confirmed("save") /\ Missing(doc) = {}
  /\ confirmed' = TRUE /\ phase' = "ended" /\ Close
  /\ UNCHANGED <<fileVars, doc, dirty, editVars>> /\ UiRest

\* open_validation_modal
SaveRefused ==
  /\ Confirmed("save") /\ Missing(doc) # {}
  /\ Change(Modal("validation", <<>>, <<>>, 1, FALSE))
  /\ DocFrame /\ UiRest

DiscardAndExit ==
  /\ Confirmed("quit")
  /\ dirty' = FALSE /\ phase' = "ended" /\ Close
  /\ UNCHANGED <<fileVars, doc, editVars, confirmed>> /\ UiRest

-----------------------------------------------------------------------------
(***************************************************************************)
(* After the editor.                                                       *)
(***************************************************************************)
EndFrame == UNCHANGED <<tree, doc, dirty, uiVars, loaded, read, editVars, confirmed>>
Content == AsJson(doc)
ToWrite(p) == phase = "ended" /\ dirty /\ Missing(doc) = {} /\ program \in {None, p} /\ program' = p

\* run() returns None, persist_if_needed does nothing.
NothingToSave == phase = "ended" /\ ~dirty /\ phase' = "done" /\ EndFrame /\ UNCHANGED <<program, file, backup>>

\* fs::write takes place, or truncates the file and fails (or the process dies in it).
WriteFile == (file' = Content /\ phase' = "done") \/ (file' = Broken /\ phase' = "failed")

\* run() reads the content as the type it configures before it writes.
RunWrites == ToWrite("ostool") /\ Fits(Content) /\ WriteFile /\ EndFrame /\ UNCHANGED backup
RunRefuses ==
  /\ ToWrite("ostool") /\ ~Fits(Content)
  /\ phase' = "failed" /\ EndFrame /\ UNCHANGED <<file, backup>>

\* persist() copies the old file first.
PersistWrites == ToWrite("jkconfig") /\ backup' = file /\ WriteFile /\ EndFrame

Next ==
  \/ QuitTooSmall \/ Back \/ OpenDialog
  \/ \E d \in {-10, -1, 1, 10} : Move(d)
  \/ AtMenu /\ \E id \in Chosen :
       \/ Tab(id) \/ ClearOptional(id) \/ ToggleMenuSet(id) \/ ToggleBool(id) \/ EnterMenu(id) \/ Activate(id)
       \/ OpenPackages(id) \/ OpenTargets(id) \/ OpenFeatures(id) \/ HookFails(id)
  \/ LeaveField
  \/ \E text \in Texts : CommitField(text) \/ CommitFails(text) \/ SetItem(text)
  \/ \E d \in {-1, 1} : MoveInList(d) \/ MoveInArray(d)
  \/ Escape \/ PickOne \/ PickNone \/ PickFails \/ ToggleChoice \/ PickMany \/ PickVariant
  \/ OpenItem \/ OpenDelete \/ Answer \/ DeleteItem
  \/ SaveAndExit \/ SaveRefused \/ DiscardAndExit
  \/ NothingToSave \/ RunWrites \/ RunRefuses \/ PersistWrites

Spec == Init /\ [][Next]_vars

-----------------------------------------------------------------------------
\* Wherever the user is, the menu, the field and the dialogs are still there: no change of a variant
\* or a menu pulls the ground from under what is open, a row is selected if there is one, and the
\* item that a confirmation is about to delete exists.
PlaceInv ==
  phase = "edit" =>
    /\ \A i \in DOMAIN nav : \E m \in MenuAt(doc, nav[i].path) :
         nav[i].at \in 1..(IF tree[m].subs = <<>> THEN 1 ELSE Len(tree[m].subs))
    /\ inline # None => inline \in Chosen
    /\ \A i \in DOMAIN modals : modals[i].id # <<>> => Live(doc, modals[i].id)
    /\ \A i \in DOMAIN modals : modals[i].options = <<"delete">> => modals[i].at \in DOMAIN doc[modals[i].id]

\* The file changes only after the user has confirmed it, what the user changed counts as unsaved,
\* and the program jkconfig has a copy of a file that it could not write.
ConsentInv ==
  /\ file # loaded => confirmed
  /\ file = Broken /\ program = "jkconfig" => backup = loaded
  /\ phase = "edit" /\ touched # {} => dirty

\* The state of the editor is sound and nothing is written unasked.
EditorInv == TypeOK /\ PlaceInv /\ ConsentInv

\* Known gaps: text of an array that looks like a number or a boolean is written as one, and a
\* variant read from an empty table does not have its settings checked.
LooksOther == \E id \in Ids : Kind(id) = "array" /\ Live(doc, id)
                              /\ \E i \in DOMAIN doc[id] : ScalarOf(doc[id][i])[1] # "str"
EmptyVariant == \E id \in Ids : /\ Kind(id) = "oneof" /\ Live(doc, id) /\ Selected(doc, id) # None
                                /\ Kind(Selected(doc, id)) = "menu" /\ ~doc[Selected(doc, id)]

\* A save that the editor let the user confirm is what ostool can read afterwards, and is not
\* refused after the editor is gone with its edits.
ConfirmedSaveIsGood ==
  confirmed /\ dirty /\ ~LooksOther /\ ~EmptyVariant =>
    /\ phase = "done" => Fits(file)
    /\ phase = "failed" => file = Broken

\* Settings of a file that was read, which the schema knows and the user left alone, are in the saved
\* file as they were; what is new is a change of the user or a default.  A file that ostool could not
\* read was shown as an empty one: a save replaces it with what the user set and the defaults, and
\* none of its settings is kept.
Known == {JsonPath(id) : id \in {e \in Ids : Kind(e) \notin {"menu", "oneof"}}}
Below(path, ids) == \E id \in ids : IsPrefix(JsonPath(id), path)
Leaves(content) == {<<p, content[p]>> : p \in {q \in DOMAIN content : content[q] # Table}}
Defaults == {<<"bool", FALSE>>, <<"arr", <<>>>>}
OtherSettingsStay ==
  phase = "done" /\ file # loaded /\ ~LooksOther =>
    LET before == IF loaded = None \/ ~read THEN {} ELSE Leaves(loaded)
    IN /\ \A l \in before : l[1] \in Known /\ ~Below(l[1], touched) => l \in Leaves(file)
       /\ \A l \in Leaves(file) : l \in before \/ Below(l[1], touched) \/ l[2] \in Defaults

\* What a confirmed save leaves is readable and is what the user saw.
SavedFileIsGood == ConfirmedSaveIsGood /\ OtherSettingsStay

\* The editor keeps its promises while it runs and in the file it leaves.
EditorIsHonest == EditorInv /\ SavedFileIsGood
=============================================================================
