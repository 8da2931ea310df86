----------------------------- MODULE StreamPreview -----------------------------
(***************************************************************************)
(* What the chat shows of one turn (src/core/streaming.go and the places of *)
(* src/core/engine.go that use it).  The turn's goroutine and the callbacks *)
(* of the flush timer share a streamPreview under its mutex; text goes to a *)
(* preview message that is edited as it grows, or to messages of its own.   *)
(*                                                                         *)
(* A text is a number of equal units: an EventText brings the next one.     *)
(* Tool messages are shown (display.tool_messages), cards are off.          *)
(***************************************************************************)
EXTENDS Integers

CONSTANTS
    MaxText,        \* bound: units of text in the turn
    MaxChars,       \* StreamPreviewCfg.MaxChars in units; 0 is no limit
    Platforms,      \* kinds of platform, see below
    Timers,         \* identities of timers; one returns to use when it is through
    NoTimer         \* the timer field is nil

ASSUME BoundsAssumption == MaxText \in Nat /\ MaxChars \in Nat
ASSUME NoTimerAssumption == NoTimer \notin Timers
(* "keep" edits the preview into the answer although it can delete messages *)
(* (Feishu), "clean" deletes the preview and sends the answer (Discord,      *)
(* Telegram), "plain" cannot delete.                                        *)
ASSUME PlatformsAssumption == Platforms \subseteq {"keep", "clean", "plain"}

VARIABLES
    platform,
    pc,         \* where the turn is
    text,       \* units received
    segStart,   \* segmentStart: the units before it are settled
    tools,      \* toolCount > 0
    active,     \* previewActive, read before a freeze
    footer,     \* the answer has a status footer
    full,       \* sp.fullText
    lastSent,   \* sp.lastSentText
    viaUpdate,  \* sp.lastSentViaUpdate
    handle,     \* sp.previewMsgID # nil
    degraded,   \* sp.degraded
    timer,      \* sp.timer
    clock,      \* timer -> idle, armed, or fired and waiting for the mutex
    message,    \* the preview message in the chat
    posted,     \* unit -> messages of its own that show it
    damage      \* history: what went wrong that the code has no answer for

turnVars    == <<platform, pc, text, segStart, tools, active, footer>>
previewVars == <<full, lastSent, viaUpdate, handle, degraded>>
timerVars   == <<timer, clock>>
chatVars    == <<message, posted, damage>>
vars == <<turnVars, previewVars, timerVars, chatVars>>

Units    == 1 .. MaxText
Contents == [n : 0 .. MaxText, cut : BOOLEAN, footer : BOOLEAN]
Messages == [there : BOOLEAN, body : Contents]
Empty    == [n |-> 0, cut |-> FALSE, footer |-> FALSE]
Damages  == {"late", "cut", "frozen", "undeleted"}

TypeOK ==
    /\ platform \in Platforms
    /\ pc \in {"loop", "append", "freeze", "result", "send", "done", "failed"}
    /\ text \in 0 .. MaxText
    /\ segStart \in 0 .. text
    /\ tools \in BOOLEAN /\ active \in BOOLEAN /\ footer \in BOOLEAN
    /\ full \in 0 .. text
    /\ lastSent \in Contents
    /\ viaUpdate \in BOOLEAN /\ handle \in BOOLEAN /\ degraded \in BOOLEAN
    /\ timer \in Timers \cup {NoTimer}
    /\ clock \in [Timers -> {"idle", "armed", "fired"}]
    /\ timer # NoTimer => clock[timer] # "idle"
    /\ message \in Messages
    /\ posted \in [Units -> 0 .. 2]
    /\ damage \subseteq Damages

Init ==
    /\ platform \in Platforms
    /\ pc = "loop"
    /\ text = 0 /\ segStart = 0
    /\ tools = FALSE /\ active = FALSE /\ footer = FALSE
    /\ full = 0
    /\ lastSent = Empty
    /\ viaUpdate = FALSE /\ handle = FALSE /\ degraded = FALSE
    /\ timer = NoTimer
    /\ clock = [i \in Timers |-> "idle"]
    /\ message = [there |-> FALSE, body |-> Empty]
    /\ posted = [u \in Units |-> 0]
    /\ damage = {}

-----------------------------------------------------------------------------
(* displayText: the text, or its beginning and an ellipsis. *)
Display(n) ==
    IF MaxChars > 0 /\ n > MaxChars
    THEN [n |-> MaxChars, cut |-> TRUE, footer |-> FALSE]
    ELSE [n |-> n, cut |-> FALSE, footer |-> FALSE]

HasCleaner == platform \in {"keep", "clean"}

(* UpdateMessage: an edit may fail, and fails when the message is gone. *)
Edits(body) ==
    /\ message.there
    /\ message' = [message EXCEPT !.body = body]

EditFails == UNCHANGED message

(* DeletePreviewMessage, whose error nobody looks at. *)
Deletes ==
    \/ message' = [message EXCEPT !.there = FALSE] /\ UNCHANGED damage
    \/ UNCHANGED message /\ damage' = damage \cup {"undeleted"}

(* Units a .. b go out as messages of their own. *)
Posts(a, b) == posted' = [u \in Units |-> posted[u] + (IF a <= u /\ u <= b THEN 1 ELSE 0)]

(* Variant with a fault: the field keeps the stopped timer. *)
CancelTimerKept ==
    /\ clock' = [i \in Timers |->
                    IF i = timer /\ clock[i] = "armed" THEN "idle" ELSE clock[i]]
    /\ UNCHANGED timer

(* cancelTimerLocked: a callback that has fired is not called off. *)
CancelTimer ==
    /\ timer' = NoTimer
    /\ clock' = [i \in Timers |->
                    IF i = timer /\ clock[i] = "armed" THEN "idle" ELSE clock[i]]

(* scheduleFlushLocked *)
ScheduleFlush ==
    IF timer # NoTimer THEN UNCHANGED timerVars
    ELSE \E i \in Timers :
            /\ clock[i] = "idle"
            /\ timer' = i
            /\ clock' = [clock EXCEPT ![i] = "armed"]

(* flushLocked *)
Flush(body) ==
    \/ /\ body = lastSent
       /\ UNCHANGED <<lastSent, viaUpdate, handle, degraded, message>>
    \/ /\ body # lastSent
       /\ degraded' = TRUE
       /\ EditFails
       /\ UNCHANGED <<lastSent, viaUpdate, handle>>
    \/ /\ body # lastSent
       /\ IF handle THEN Edits(body) ELSE message' = [there |-> TRUE, body |-> body]
       /\ handle' = TRUE
       /\ lastSent' = body
       /\ viaUpdate' = handle
       /\ UNCHANGED degraded

-----------------------------------------------------------------------------
(***************************************************************************)
(* The turn.                                                               *)
(***************************************************************************)

(* EventText; canPreview takes the mutex before appendText does. *)
Text ==
    /\ pc = "loop" /\ text < MaxText
    /\ text' = text + 1
    /\ pc' = IF degraded THEN "loop" ELSE "append"
    /\ UNCHANGED <<platform, segStart, tools, active, footer, previewVars, timerVars, chatVars>>

(* appendText; how much text and time has passed decides between a flush    *)
(* now and one later, but the first one is at once.                         *)
AppendText ==
    /\ pc = "append"
    /\ pc' = "loop"
    /\ IF degraded
       THEN UNCHANGED <<previewVars, timerVars, message>>
       ELSE /\ full' = full + 1
            /\ \/ /\ lastSent # Empty
                  /\ ScheduleFlush
                  /\ UNCHANGED <<lastSent, viaUpdate, handle, degraded, message>>
               \/ /\ CancelTimer
                  /\ Flush(Display(full'))
    /\ UNCHANGED <<platform, text, segStart, tools, active, footer, posted, damage>>

(* Variant with a fault: the text so far is not marked as settled. *)
ToolUnsettled ==
    /\ pc = "loop"
    /\ tools' = TRUE
    /\ active' = ~degraded
    /\ IF degraded THEN Posts(segStart + 1, text) ELSE UNCHANGED posted
    /\ pc' = "freeze"
    /\ UNCHANGED <<platform, text, segStart, footer, previewVars, timerVars, message, damage>>

(* EventToolUse: the text so far is left to an active preview, or sent. *)
Tool ==
    /\ pc = "loop"
    /\ tools' = TRUE
    /\ active' = ~degraded
    /\ IF degraded THEN Posts(segStart + 1, text) ELSE UNCHANGED posted
    /\ segStart' = text
    /\ pc' = "freeze"
    /\ UNCHANGED <<platform, text, footer, previewVars, timerVars, message, damage>>

(* Variant with a fault: no detachPreview. *)
FreezeAttached ==
    /\ pc = "freeze"
    /\ CancelTimer
    /\ IF handle /\ ~degraded THEN Edits(Display(full)) ELSE UNCHANGED message
    /\ degraded' = TRUE
    /\ pc' = "loop"
    /\ UNCHANGED <<platform, text, segStart, tools, active, footer, full, lastSent, viaUpdate,
                   handle, posted, damage>>

(* freeze and detachPreview.  The error of the last edit is not looked at. *)
Freeze ==
    /\ pc = "freeze"
    /\ CancelTimer
    /\ LET body == Display(full)
           lost == IF body.cut THEN {"cut"} ELSE {}
       IN  IF handle /\ ~degraded
           THEN \/ Edits(body) /\ damage' = damage \cup lost
                \/ EditFails /\ damage' = damage \cup {"frozen"}
           ELSE /\ UNCHANGED message
                /\ damage' = IF active /\ handle THEN damage \cup {"frozen"} ELSE damage
    /\ degraded' = TRUE
    /\ handle' = (handle /\ ~active)
    /\ pc' = "loop"
    /\ UNCHANGED <<platform, text, segStart, tools, active, footer, full, lastSent, viaUpdate,
                   posted>>

(* discard *)
Discard ==
    /\ CancelTimer
    /\ CASE handle /\ HasCleaner  -> Deletes
         [] handle /\ ~HasCleaner -> UNCHANGED message /\ damage' = damage \cup {"undeleted"}
         [] ~handle               -> UNCHANGED <<message, damage>>
    /\ handle' = FALSE
    /\ degraded' = TRUE
    /\ UNCHANGED <<full, lastSent, viaUpdate>>

(* EventResult; statusFooter is known now. *)
Result ==
    /\ pc = "loop" /\ text > 0
    /\ footer' \in BOOLEAN
    /\ pc' = "result"
    /\ UNCHANGED <<platform, text, segStart, tools, active, previewVars, timerVars, chatVars>>

(* Text came before tools: only the rest of it is sent. *)
SendRest ==
    /\ pc = "result" /\ tools /\ segStart > 0
    /\ Discard
    /\ Posts(segStart + 1, text)
    /\ pc' = "done"
    /\ UNCHANGED <<platform, text, segStart, tools, active, footer>>

Answer == [n |-> text, cut |-> FALSE, footer |-> footer]
Whole  == [n |-> text, cut |-> FALSE, footer |-> FALSE]

(* finish, with a preview to be edited into the answer. *)
FinishEdits ==
    \/ /\ handle /\ degraded                    \* tries once more
       /\ Edits(Whole)
       /\ pc' = "done"
       /\ UNCHANGED damage
    \/ /\ handle /\ ~degraded /\ platform # "clean"
       /\ IF Whole = lastSent /\ viaUpdate /\ ~footer THEN UNCHANGED message
                                                      ELSE Edits(Answer)
       /\ pc' = "done"
       /\ UNCHANGED damage

(* finish, without: the caller sends the answer. *)
FinishCleans ==
    /\ pc' = "send"
    /\ \/ /\ ~handle
          /\ UNCHANGED <<message, damage>>
       \/ /\ handle
          /\ ~degraded => platform = "clean" \/ ~(Whole = lastSent /\ viaUpdate /\ ~footer)
          /\ IF HasCleaner THEN Deletes
             ELSE UNCHANGED message /\ damage' = damage \cup {"undeleted"}

(* Variant with a fault: the handle is dropped without degrading. *)
FinishDropsHandle ==
    /\ pc = "result" /\ ~(tools /\ segStart > 0)
    /\ CancelTimer
    /\ FinishEdits \/ FinishCleans
    /\ handle' = FALSE
    /\ UNCHANGED <<platform, text, segStart, tools, active, footer, full, lastSent, viaUpdate,
                   degraded, posted>>

Finish ==
    /\ pc = "result" /\ ~(tools /\ segStart > 0)
    /\ CancelTimer
    /\ FinishEdits \/ FinishCleans
    /\ UNCHANGED <<platform, text, segStart, tools, active, footer, previewVars, posted>>

SendAnswer ==
    /\ pc = "send"
    /\ Posts(1, text)
    /\ pc' = "done"
    /\ UNCHANGED <<platform, text, segStart, tools, active, footer, previewVars, timerVars,
                   message, damage>>

(* An error, a timeout or /stop ends the turn without an answer. *)
Fail ==
    /\ pc = "loop"
    /\ Discard
    /\ pc' = "failed"
    /\ UNCHANGED <<platform, text, segStart, tools, active, footer, posted>>

Turn == \/ Text \/ AppendText \/ Tool \/ Freeze
        \/ Result \/ SendRest \/ Finish \/ SendAnswer \/ Fail

-----------------------------------------------------------------------------
(***************************************************************************)
(* The timer.                                                              *)
(***************************************************************************)
Fire(i) ==
    /\ clock[i] = "armed"
    /\ clock' = [clock EXCEPT ![i] = "fired"]
    /\ UNCHANGED <<turnVars, previewVars, timer, chatVars>>

(* Variant with a fault: the field keeps the timer that has fired. *)
CallbackKeepsTimer(i) ==
    /\ clock[i] = "fired"
    /\ clock' = [clock EXCEPT ![i] = "idle"]
    /\ IF degraded THEN UNCHANGED <<lastSent, viaUpdate, handle, degraded, message>>
       ELSE Flush(Display(full))
    /\ UNCHANGED <<turnVars, full, timer, posted, damage>>

(* The callback gets the mutex.  It clears the field, whose timer may be a  *)
(* newer one; after the end of the turn it is late.                         *)
Callback(i) ==
    /\ clock[i] = "fired"
    /\ clock' = [clock EXCEPT ![i] = "idle"]
    /\ timer' = NoTimer
    /\ IF degraded THEN UNCHANGED <<lastSent, viaUpdate, handle, degraded, message, damage>>
       ELSE /\ Flush(Display(full))
            /\ damage' = IF pc \in {"send", "done"} /\ message' # message
                         THEN damage \cup {"late"} ELSE damage
    /\ UNCHANGED <<turnVars, full, posted>>

Next == Turn \/ \E i \in Timers : Fire(i) \/ Callback(i)

(* Timers fire, and their callbacks get the mutex.  The agent need not go   *)
(* on.                                                                      *)
Fairness == \A i \in Timers : WF_vars(Fire(i)) /\ WF_vars(Callback(i))

Spec == Init /\ [][Next]_vars
FairSpec == Spec /\ Fairness

-----------------------------------------------------------------------------
(* How many messages of the chat show unit u. *)
Shows(u) == posted[u] + (IF message.there /\ u <= message.body.n THEN 1 ELSE 0)

(* Whatever calls to the platform failed: an answered turn shows every unit *)
(* of its text, and the footer of an answer in a preview.  The code has no  *)
(* answer to three things: the edit of a freeze fails, a freeze cuts the    *)
(* text off at MaxChars, and a callback is late.                            *)
EveryUnitShown ==
    pc = "done" /\ damage \subseteq {"undeleted"} =>
        /\ \A u \in 1 .. text : Shows(u) >= 1
        /\ footer /\ ~degraded /\ (\A u \in Units : posted[u] = 0) => message.body.footer

(* An answered turn shows no unit twice, unless a preview that is of no use *)
(* any more could not be deleted.                                           *)
NoUnitTwice ==
    pc = "done" /\ "undeleted" \notin damage => \A u \in 1 .. text : Shows(u) <= 1

(* A preview that was deleted does not come back, however late a callback.  *)
GoneStaysGone ==
    [][(pc \in {"send", "done", "failed"} /\ ~message.there) => (message'.there = FALSE)]_vars

(* A preview that works catches up with the text, even if no more comes.    *)
CatchesUp ==
    (~degraded /\ lastSent # Display(full)) ~>
        (degraded \/ lastSent = Display(full) \/ pc \in {"result", "send", "done", "failed"})
=============================================================================
