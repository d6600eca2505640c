------------------------------ MODULE Feedback ------------------------------
(***************************************************************************)
(* POST /feedback of type todo (handleFeedback in                          *)
(* internal/server/server.go, appendTodo in feedback.go), beside the       *)
(* reloads of the server whose operations are module Operation.            *)
(*                                                                         *)
(* A handler loads the published config twice: before it checks the text,  *)
(* and before it files it.  An item of the TODO file is kept by its text   *)
(* and by whether that was ever checked.                                   *)
(***************************************************************************)
EXTENDS Operation

CONSTANTS
    Writer,     \* handlers of /feedback
    Sent,       \* texts that are sent: as they are, and as normalizeTodoText has them
    MaxItems    \* items in a file that is over 1 MB

ASSUME FeedbackAssumption ==
    /\ Nil \notin Writer
    /\ \A c \in DOMAIN Config : Config[c].todo \in BOOLEAN

VARIABLES
    todo,       \* the items of the TODO file
    holder,     \* the handler that holds feedbackTodoMu, Nil for none
    writer      \* of each handler where it is, what it was sent, and what it files

feedbackVars == <<todo, holder, writer>>

Resting == [at |-> "idle", sent |-> Nil, text |-> "", checked |-> FALSE]

QuietFeedback == todo = << >> /\ \A w \in Writer : writer[w] = Resting

FeedbackInit ==
    /\ todo = << >>
    /\ holder = Nil
    /\ writer = [w \in Writer |-> Resting]

\* The write of an item, or its beginning when it is cut short.
Cut == "cut short"

-----------------------------------------------------------------------------

\* Whether the published config has a todo_path.
TodoPath == Config[conf].todo

At(w, step)   == writer[w].at = step /\ UNCHANGED <<vars, opVars>>
Becomes(w, r) == writer' = [writer EXCEPT ![w] = r]
Go(w, step)   == Becomes(w, [writer[w] EXCEPT !.at = step])
Answered(w)   == Becomes(w, Resting)

Receive(w) ==
    /\ At(w, "idle")
    /\ \E s \in Sent : Becomes(w, [writer[w] EXCEPT !.at = "check", !.sent = s])
    /\ UNCHANGED <<todo, holder>>

\* Only a text that is to be filed is checked, by the config of this moment.
CheckText(w) ==
    /\ At(w, "check")
    /\ IF TodoPath /\ writer[w].sent.normal = "" THEN Answered(w)
       ELSE Becomes(w, [writer[w] EXCEPT !.at = "file", !.checked = TodoPath,
                                         !.text = IF TodoPath THEN writer[w].sent.normal ELSE ""])
    /\ UNCHANGED <<todo, holder>>

\* feedback.log has the entry, or the handler fails; todo_path is looked up again.
File(w) ==
    /\ At(w, "file")
    /\ Answered(w) \/ (TodoPath /\ Go(w, "lock"))
    /\ UNCHANGED <<todo, holder>>

\* Mutant: appendTodo without its mutex.
LockTodoAtOnce(w) ==
    /\ At(w, "lock")
    /\ holder' = w
    /\ Go(w, "scan")
    /\ UNCHANGED todo

LockTodo(w) ==
    /\ At(w, "lock")
    /\ holder = Nil
    /\ holder' = w
    /\ Go(w, "scan")
    /\ UNCHANGED todo

\* hasTodoItem, which does not recognise an item without a text.
HasTodoItem(text) == text # "" /\ \E i \in DOMAIN todo : todo[i].text = text

\* The file is read: it may fail to open, be too large, or have the item.
ScanTodo(w) ==
    /\ At(w, "scan")
    /\ \/ holder' = Nil /\ Answered(w)
       \/ /\ Len(todo) < MaxItems
          /\ ~HasTodoItem(writer[w].text)
          /\ Go(w, "append") /\ UNCHANGED holder
    /\ UNCHANGED todo

AppendTodo(w) ==
    /\ At(w, "append")
    /\ holder' = Nil
    /\ \E text \in {writer[w].text, Cut} :
          todo' = Append(todo, [text |-> text, checked |-> writer[w].checked])
    /\ Answered(w)

FeedbackStep ==
    \E w \in Writer :
        \/ Receive(w) \/ CheckText(w) \/ File(w)
        \/ LockTodo(w) \/ ScanTodo(w) \/ AppendTodo(w)

\* The server: operations, feedback and reloads, which share the published config.
serverVars == <<theVars, feedbackVars>>

ServerInit == OpInit /\ FeedbackInit
ServerNext == (OpNext /\ UNCHANGED feedbackVars) \/ FeedbackStep

ServerSpec == ServerInit /\ [][ServerNext]_serverVars

-----------------------------------------------------------------------------

\* No two items of the file have the same text, however many handlers file it at
\* a time; what a failed write has left is no item.
TodoOnce ==
    \A i, j \in DOMAIN todo : todo[i].text = todo[j].text => i = j \/ todo[i].text \in {"", Cut}

\* An item without a text gets into the file in one way only: todo_path was set
\* by a reload after the text had gone by unchecked.
EmptyTodoOnlyByReload ==
    \A i \in DOMAIN todo : todo[i].text = "" => ~todo[i].checked

\* The TODO file holds each text once and no empty one, whatever handlers file at
\* a time; only a reload between the two readings of todo_path excuses an empty one.
TodoKept == TodoOnce /\ EmptyTodoOnlyByReload
=============================================================================
