-------------------------- MODULE StreamPreviewProofs --------------------------
(***************************************************************************)
(* What the chat shows of a turn, for any length of text, any limit of the  *)
(* preview, any kinds of platform and any number of timers.                *)
(***************************************************************************)
EXTENDS StreamPreview, TLAPS

(* The turn has not been answered or given up. *)
WorkPcs == {"loop", "append", "freeze", "result"}
NothingPosted == \A u \in Units : posted[u] = 0

(* A preview that works: it has the text that was appended last, the       *)
(* handle, and a message with what was sent last.                          *)
PreviewInv ==
    /\ ~degraded =>
        /\ text = IF pc = "append" THEN full + 1 ELSE full
        /\ handle <=> full > 0
        /\ handle <=> lastSent # Empty
        /\ message.there => handle
        /\ handle /\ pc \in WorkPcs => message.there /\ message.body = lastSent
    /\ message.body.n <= text

(* A tool ends the preview, at the latest when its freeze is through.      *)
ToolInv ==
    /\ pc \in WorkPcs /\ ~tools => segStart = 0 /\ NothingPosted
    /\ tools => degraded \/ pc = "freeze"
    /\ pc = "freeze" =>
        /\ tools /\ segStart = text
        /\ IF active THEN NothingPosted /\ (handle \/ segStart = 0) ELSE degraded
    /\ pc \in {"result", "send", "done"} => text > 0

(* What is settled is in a message of its own, or in the preview message    *)
(* that was detached; never in both.                                       *)
PostedInv ==
    pc \in WorkPcs =>
        /\ \A u \in Units : posted[u] = 0 \/ (posted[u] = 1 /\ u <= segStart)
        /\ ~handle /\ message.there =>
            /\ message.body.n <= segStart
            /\ \A u \in Units : u <= message.body.n => posted[u] = 0

Settled(u) == posted[u] = 1 \/ (~handle /\ message.there /\ u <= message.body.n)

SettledShown ==
    pc \in WorkPcs /\ damage \subseteq {"undeleted"} /\ ~(pc = "freeze" /\ active) =>
        \A u \in 1 .. segStart : Settled(u)

(* The answer is to be sent: the chat shows nothing of it yet.             *)
SendInv ==
    pc = "send" =>
        /\ NothingPosted
        /\ message.there /\ "undeleted" \notin damage => degraded /\ message.body.n = 0

(* A late callback can only edit a message that shows the answer alone.    *)
DoneInv ==
    pc = "done" =>
        /\ \A u \in Units : posted[u] <= 1
        /\ message.there /\ ~degraded /\ "undeleted" \notin damage => NothingPosted

ChatInv ==
    /\ TypeOK
    /\ PreviewInv
    /\ ToolInv
    /\ PostedInv
    /\ SettledShown
    /\ SendInv
    /\ DoneInv
    /\ NoUnitTwice
    /\ EveryUnitShown

-----------------------------------------------------------------------------
USE BoundsAssumption, NoTimerAssumption, PlatformsAssumption

(***************************************************************************)
(* The operators the actions are made of.                                  *)
(***************************************************************************)

LEMMA DisplayFacts ==
    ASSUME NEW n \in 0 .. MaxText
    PROVE  /\ Display(n) \in Contents
           /\ Display(n).n <= n
           /\ ~Display(n).cut => Display(n).n = n
           /\ n = 0 <=> Display(n) = Empty
<1>1. CASE MaxChars > 0 /\ n > MaxChars
  <2>1. Display(n) = [n |-> MaxChars, cut |-> TRUE, footer |-> FALSE]
    BY <1>1 DEF Display
  <2>2. Display(n).cut = TRUE /\ Empty.cut = FALSE
    BY <2>1 DEF Empty
  <2>. QED  BY <1>1, <2>1, <2>2 DEF Contents
<1>2. CASE ~(MaxChars > 0 /\ n > MaxChars)
  <2>1. Display(n) = [n |-> n, cut |-> FALSE, footer |-> FALSE]
    BY <1>2 DEF Display
  <2>2. Display(n).n = n /\ Empty.n = 0
    BY <2>1 DEF Empty
  <2>3. Display(n) \in Contents
    BY <2>1 DEF Contents
  <2>4. n = 0 => Display(n) = Empty
    BY <2>1 DEF Empty
  <2>. QED  BY <2>1, <2>2, <2>3, <2>4
<1>. QED  BY <1>1, <1>2

TimerType ==
    /\ timer \in Timers \cup {NoTimer}
    /\ clock \in [Timers -> {"idle", "armed", "fired"}]
    /\ timer # NoTimer => clock[timer] # "idle"

LEMMA CancelTimerType == TypeOK /\ CancelTimer => TimerType'
  BY DEF TypeOK, CancelTimer, TimerType

LEMMA ScheduleFlushType == TypeOK /\ ScheduleFlush => TimerType'
<1> SUFFICES ASSUME TypeOK, ScheduleFlush PROVE TimerType'
  OBVIOUS
<1>1. CASE timer # NoTimer
  BY <1>1 DEF TypeOK, ScheduleFlush, TimerType, timerVars
<1>2. CASE timer = NoTimer
  BY <1>2 DEF TypeOK, ScheduleFlush, TimerType
<1>. QED  BY <1>1, <1>2

(* flushLocked: nothing new, a failure that degrades, or the text is shown. *)
LEMMA FlushFacts ==
    ASSUME TypeOK, NEW body \in Contents, Flush(body)
    PROVE  /\ lastSent' \in Contents /\ viaUpdate' \in BOOLEAN
           /\ handle' \in BOOLEAN /\ degraded' \in BOOLEAN
           /\ message' \in Messages
           /\ \/ body = lastSent /\ UNCHANGED <<lastSent, handle, degraded, message>>
              \/ degraded' /\ UNCHANGED <<lastSent, handle, message>>
              \/ /\ handle => message.there
                 /\ handle' /\ lastSent' = body /\ degraded' = degraded
                 /\ message' = [there |-> TRUE, body |-> body]
                 /\ body # lastSent
<1>1. CASE body = lastSent /\ UNCHANGED <<lastSent, viaUpdate, handle, degraded, message>>
  BY <1>1 DEF TypeOK
<1>2. CASE /\ degraded' = TRUE
           /\ EditFails
           /\ UNCHANGED <<lastSent, viaUpdate, handle>>
  BY <1>2 DEF TypeOK, EditFails
<1>3. CASE /\ body # lastSent
           /\ IF handle THEN Edits(body) ELSE message' = [there |-> TRUE, body |-> body]
           /\ handle' = TRUE
           /\ lastSent' = body
           /\ viaUpdate' = handle
           /\ UNCHANGED degraded
  <2>1. /\ handle => message.there
        /\ message' = [there |-> TRUE, body |-> body]
    BY <1>3 DEF TypeOK, Edits, Messages
  <2>. QED  BY <1>3, <2>1 DEF TypeOK, Messages
<1>. QED  BY <1>1, <1>2, <1>3 DEF Flush

(* discard: the preview is over, its message gone or beyond deletion. *)
LEMMA DiscardFacts ==
    ASSUME TypeOK, Discard
    PROVE  /\ handle' = FALSE /\ degraded' = TRUE
           /\ UNCHANGED <<full, lastSent, viaUpdate>>
           /\ TimerType'
           /\ message' \in Messages
           /\ message'.body = message.body
           /\ message'.there => message.there
           /\ damage \subseteq damage' /\ damage' \subseteq damage \cup {"undeleted"}
           /\ IF handle THEN message'.there => "undeleted" \in damage'
                        ELSE UNCHANGED message
<1>1. TimerType' /\ handle' = FALSE /\ degraded' = TRUE
      /\ UNCHANGED <<full, lastSent, viaUpdate>>
  BY CancelTimerType DEF Discard
<1>2. CASE handle /\ HasCleaner
  <2>1. Deletes
    BY <1>2 DEF Discard
  <2>. QED  BY <1>1, <1>2, <2>1 DEF TypeOK, Deletes, Messages
<1>3. CASE handle /\ ~HasCleaner
  <2>1. UNCHANGED message /\ damage' = damage \cup {"undeleted"}
    BY <1>3 DEF Discard
  <2>. QED  BY <1>1, <1>3, <2>1 DEF TypeOK
<1>4. CASE ~handle
  <2>1. UNCHANGED <<message, damage>>
    BY <1>4 DEF Discard
  <2>. QED  BY <1>1, <1>4, <2>1 DEF TypeOK
<1>. QED  BY <1>2, <1>3, <1>4 DEF TypeOK


-----------------------------------------------------------------------------
(***************************************************************************)
(* The steps of the turn.                                                  *)
(***************************************************************************)

LEMMA TextStep == ChatInv /\ Text => ChatInv'
<1> SUFFICES ASSUME ChatInv, Text PROVE ChatInv'
  OBVIOUS
<1>1. /\ pc = "loop" /\ text < MaxText /\ text' = text + 1
      /\ pc' = IF degraded THEN "loop" ELSE "append"
      /\ UNCHANGED <<platform, segStart, tools, active, footer, full, lastSent, viaUpdate,
                     handle, degraded, timer, clock, message, posted, damage>>
  BY DEF Text, previewVars, timerVars, chatVars
<1>2. TypeOK'
  BY <1>1 DEF ChatInv, TypeOK
<1>3. PreviewInv'
  BY <1>1 DEF ChatInv, TypeOK, PreviewInv, WorkPcs, Messages, Contents
<1>4. ToolInv' /\ PostedInv' /\ SettledShown' /\ SendInv' /\ DoneInv'
  BY <1>1 DEF ChatInv, TypeOK, ToolInv, PostedInv, SettledShown, SendInv, DoneInv,
              NothingPosted, WorkPcs, Settled
<1>5. NoUnitTwice' /\ EveryUnitShown'
  BY <1>1 DEF NoUnitTwice, EveryUnitShown
<1>. QED  BY <1>2, <1>3, <1>4, <1>5 DEF ChatInv

LEMMA AppendTextStep == ChatInv /\ AppendText => ChatInv'
<1> SUFFICES ASSUME ChatInv, AppendText PROVE ChatInv'
  OBVIOUS
<1>1. /\ pc = "append" /\ pc' = "loop"
      /\ UNCHANGED <<platform, text, segStart, tools, active, footer, posted, damage>>
  BY DEF AppendText
<1>2. /\ full' \in 0 .. text /\ lastSent' \in Contents
      /\ viaUpdate' \in BOOLEAN /\ handle' \in BOOLEAN /\ degraded' \in BOOLEAN
      /\ message' \in Messages /\ TimerType'
      /\ ~degraded' => /\ ~degraded /\ full' = text /\ full' > 0
                       /\ handle' /\ lastSent' # Empty
                       /\ message'.there /\ message'.body = lastSent'
      /\ message'.body.n <= text
      /\ degraded => handle' = handle /\ message' = message
      /\ ~handle' /\ message'.there => degraded
  <2>1. CASE degraded
    BY <2>1 DEF AppendText, ChatInv, TypeOK, PreviewInv, previewVars, timerVars, TimerType
  <2>2. CASE ~degraded
    <3>1. /\ full' = full + 1
          /\ full' = text /\ text \in 1 .. MaxText
      BY <1>1, <2>2 DEF AppendText, ChatInv, TypeOK, PreviewInv
    <3>2. CASE /\ lastSent # Empty
               /\ ScheduleFlush
               /\ UNCHANGED <<lastSent, viaUpdate, handle, degraded, message>>
      <4>1. TimerType'
        BY <3>2, ScheduleFlushType DEF ChatInv
      <4>. QED  BY <1>1, <2>2, <3>1, <3>2, <4>1 DEF ChatInv, TypeOK, PreviewInv, WorkPcs
    <3>3. CASE CancelTimer /\ Flush(Display(full'))
      <4>1. TimerType'
        BY <3>3, CancelTimerType DEF ChatInv
      <4>. DEFINE body == Display(text)
      <4>2. /\ body \in Contents /\ body.n <= text /\ body # Empty
        BY <3>1, DisplayFacts DEF ChatInv, TypeOK
      <4>3. Flush(body)
        BY <3>1, <3>3
      <4>. HIDE DEF body
      <4>4. /\ lastSent' \in Contents /\ viaUpdate' \in BOOLEAN
            /\ handle' \in BOOLEAN /\ degraded' \in BOOLEAN
            /\ message' \in Messages
            /\ \/ body = lastSent /\ UNCHANGED <<lastSent, handle, degraded, message>>
               \/ degraded' /\ UNCHANGED <<lastSent, handle, message>>
               \/ /\ handle => message.there
                  /\ handle' /\ lastSent' = body /\ degraded' = degraded
                  /\ message' = [there |-> TRUE, body |-> body]
                  /\ body # lastSent
        BY <4>2, <4>3, FlushFacts DEF ChatInv
      <4>. QED  BY <1>1, <2>2, <3>1, <4>1, <4>2, <4>4 DEF ChatInv, PreviewInv, WorkPcs
    <3>. QED  BY <2>2, <3>2, <3>3 DEF AppendText
  <2>. QED  BY <2>1, <2>2
<1>3. TypeOK'
  BY <1>1, <1>2 DEF ChatInv, TypeOK, TimerType
<1>4. PreviewInv' /\ ToolInv'
  BY <1>1, <1>2 DEF ChatInv, PreviewInv, ToolInv, WorkPcs, NothingPosted
<1>5. PostedInv' /\ SettledShown'
  BY <1>1, <1>2 DEF ChatInv, PostedInv, SettledShown, WorkPcs, Settled, PreviewInv
<1>6. SendInv' /\ DoneInv' /\ NoUnitTwice' /\ EveryUnitShown'
  BY <1>1 DEF SendInv, DoneInv, NoUnitTwice, EveryUnitShown
<1>. QED  BY <1>3, <1>4, <1>5, <1>6 DEF ChatInv


(* Units a .. b get one message more. *)
LEMMA PostsFacts ==
    ASSUME TypeOK, NEW a \in Int, NEW b \in Int, Posts(a, b)
    PROVE  /\ DOMAIN posted' = Units
           /\ \A u \in Units : a <= u /\ u <= b => posted'[u] = posted[u] + 1
           /\ \A u \in Units : ~(a <= u /\ u <= b) => posted'[u] = posted[u]
           /\ posted' = [u \in Units |-> posted'[u]]
  BY DEF TypeOK, Posts, Units

LEMMA ToolStep == ChatInv /\ Tool => ChatInv'
<1> SUFFICES ASSUME ChatInv, Tool PROVE ChatInv'
  OBVIOUS
<1>1. /\ pc = "loop" /\ pc' = "freeze" /\ tools' = TRUE /\ active' = ~degraded
      /\ segStart' = text
      /\ UNCHANGED <<platform, text, footer, full, lastSent, viaUpdate, handle, degraded,
                     timer, clock, message, damage>>
  BY DEF Tool, previewVars, timerVars
<1>2. text \in 0 .. MaxText /\ segStart \in 0 .. text
  BY DEF ChatInv, TypeOK
<1>3. CASE degraded
  <2>1. Posts(segStart + 1, text)
    BY <1>3 DEF Tool
  <2>2. /\ posted' = [u \in Units |-> posted'[u]]
        /\ \A u \in Units : u <= segStart \/ u > text => posted'[u] = posted[u]
        /\ \A u \in Units : segStart < u /\ u <= text => posted'[u] = posted[u] + 1
    <3>1. segStart + 1 \in Int /\ text \in Int
      BY <1>2
    <3>2. /\ posted' = [u \in Units |-> posted'[u]]
          /\ \A u \in Units : segStart + 1 <= u /\ u <= text => posted'[u] = posted[u] + 1
          /\ \A u \in Units : ~(segStart + 1 <= u /\ u <= text) => posted'[u] = posted[u]
      BY <2>1, <3>1, PostsFacts DEF ChatInv
    <3>. QED  BY <1>2, <3>2 DEF Units
  <2>3. \A u \in Units : posted'[u] = 0 \/ (posted'[u] = 1 /\ u <= text)
    BY <1>1, <1>2, <2>2 DEF ChatInv, PostedInv, WorkPcs, Units
  <2>4. \A u \in Units : segStart < u /\ u <= text => posted'[u] = 1
    BY <1>1, <1>2, <2>2 DEF ChatInv, PostedInv, WorkPcs, Units
  <2>5. TypeOK'
    <3>1. posted' \in [Units -> 0 .. 2]
      BY <2>2, <2>3
    <3>. QED  BY <1>1, <1>2, <3>1 DEF ChatInv, TypeOK
  <2>6. PreviewInv' /\ ToolInv'
    BY <1>1, <1>3 DEF ChatInv, PreviewInv, ToolInv, WorkPcs
  <2>7. PostedInv'
    BY <1>1, <1>2, <2>2, <2>3 DEF ChatInv, PostedInv, WorkPcs, TypeOK, Messages, Contents, Units
  <2>8. SettledShown'
    BY <1>1, <1>2, <1>3, <2>2, <2>4 DEF ChatInv, SettledShown, WorkPcs, Settled, TypeOK, Units
  <2>. QED  BY <1>1, <2>5, <2>6, <2>7, <2>8
            DEF ChatInv, SendInv, DoneInv, NoUnitTwice, EveryUnitShown
<1>4. CASE ~degraded
  <2>1. UNCHANGED posted
    BY <1>4 DEF Tool
  <2>2. /\ ~tools /\ NothingPosted /\ text = full
        /\ handle \/ text = 0
        /\ active'
    <3>1. active' = TRUE
      BY <1>1, <1>4
    <3>. QED  BY <1>1, <1>2, <1>4, <3>1 DEF ChatInv, PreviewInv, ToolInv, WorkPcs
  <2>3. TypeOK'
    BY <1>1, <1>2, <2>1 DEF ChatInv, TypeOK
  <2>4. PreviewInv' /\ ToolInv'
    BY <1>1, <1>2, <1>4, <2>1, <2>2 DEF ChatInv, PreviewInv, ToolInv, WorkPcs, NothingPosted,
                                     TypeOK
  <2>5. PostedInv'
    BY <1>1, <1>4, <2>1, <2>2 DEF ChatInv, PostedInv, PreviewInv, NothingPosted
  <2>. QED  BY <1>1, <1>4, <2>3, <2>4, <2>5
            DEF ChatInv, SettledShown, SendInv, DoneInv, NoUnitTwice, EveryUnitShown
<1>. QED  BY <1>3, <1>4

LEMMA FreezeStep == ChatInv /\ Freeze => ChatInv'
<1> SUFFICES ASSUME ChatInv, Freeze PROVE ChatInv'
  OBVIOUS
<1>1. /\ pc = "freeze" /\ pc' = "loop" /\ degraded' = TRUE /\ handle' = (handle /\ ~active)
      /\ UNCHANGED <<platform, text, segStart, tools, active, footer, full, lastSent,
                     viaUpdate, posted>>
      /\ TimerType'
  BY CancelTimerType DEF Freeze, ChatInv
<1>2. tools /\ segStart = text /\ text \in 0 .. MaxText
  BY <1>1 DEF ChatInv, ToolInv, TypeOK
<1>3. /\ message' \in Messages
      /\ message'.there = message.there
      /\ message'.body.n <= text
      /\ damage \subseteq damage' /\ damage' \subseteq Damages
      /\ degraded => message' = message
      /\ ~handle => message' = message
      /\ active /\ handle /\ damage' \subseteq {"undeleted"} =>
             message'.there /\ message'.body.n = text
  <2>1. CASE handle /\ ~degraded
    <3>1. /\ text = full /\ message.there
      BY <1>1, <2>1 DEF ChatInv, PreviewInv, WorkPcs
    <3>. DEFINE body == Display(text)
    <3>2. body \in Contents /\ body.n <= text /\ (~body.cut => body.n = text)
      BY <1>2, DisplayFacts
    <3>3. \/ Edits(body) /\ damage' = damage \cup (IF body.cut THEN {"cut"} ELSE {})
          \/ EditFails /\ damage' = damage \cup {"frozen"}
      BY <2>1, <3>1 DEF Freeze
    <3>. HIDE DEF body
    <3>4. CASE Edits(body) /\ damage' = damage \cup (IF body.cut THEN {"cut"} ELSE {})
      <4>1. message' = [there |-> TRUE, body |-> body]
        BY <3>1, <3>4 DEF Edits, ChatInv, TypeOK, Messages
      <4>2. body.cut \in BOOLEAN
        BY <3>2 DEF Contents
      <4>. QED  BY <2>1, <3>1, <3>2, <3>4, <4>1, <4>2 DEF ChatInv, TypeOK, Messages, Damages
    <3>5. CASE EditFails /\ damage' = damage \cup {"frozen"}
      BY <2>1, <3>1, <3>5 DEF EditFails, ChatInv, TypeOK, PreviewInv, Damages
    <3>. QED  BY <3>3, <3>4, <3>5
  <2>2. CASE ~(handle /\ ~degraded)
    <3>1. /\ UNCHANGED message
          /\ damage' = IF active /\ handle THEN damage \cup {"frozen"} ELSE damage
      BY <2>2 DEF Freeze
    <3>. QED  BY <2>2, <3>1 DEF ChatInv, TypeOK, PreviewInv, Damages
  <2>. QED  BY <2>1, <2>2
<1>4. TypeOK'
  <2>1. handle' \in BOOLEAN
    BY <1>1
  <2>. QED  BY <1>1, <1>3, <2>1 DEF ChatInv, TypeOK, TimerType
<1>5. PreviewInv' /\ ToolInv'
  BY <1>1, <1>2, <1>3 DEF ChatInv, PreviewInv, ToolInv, WorkPcs
<1>6. PostedInv'
  <2>1. CASE active
    BY <1>1, <1>2, <1>3, <2>1 DEF ChatInv, PostedInv, ToolInv, WorkPcs, NothingPosted
  <2>2. CASE ~active
    <3>1. degraded /\ message' = message
      BY <1>1, <1>3, <2>2 DEF ChatInv, ToolInv
    <3>. QED  BY <1>1, <2>2, <3>1 DEF ChatInv, PostedInv, WorkPcs
  <2>. QED  BY <2>1, <2>2
<1>7. SettledShown'
  <2>1. CASE active /\ handle
    <3>1. ~handle' /\ segStart' = text
      BY <1>1, <1>2, <2>1
    <3>. QED  BY <1>2, <1>3, <2>1, <3>1 DEF SettledShown, Settled
  <2>2. CASE active /\ ~handle
    BY <1>1, <2>2 DEF ChatInv, ToolInv, SettledShown, Units
  <2>3. CASE ~active
    <3>1. degraded /\ message' = message
      BY <1>1, <1>3, <2>3 DEF ChatInv, ToolInv
    <3>. QED  BY <1>1, <1>3, <2>3, <3>1 DEF ChatInv, SettledShown, WorkPcs, Settled
  <2>. QED  BY <2>1, <2>2, <2>3
<1>. QED  BY <1>1, <1>4, <1>5, <1>6, <1>7
          DEF ChatInv, SendInv, DoneInv, NoUnitTwice, EveryUnitShown

LEMMA ResultStep == ChatInv /\ Result => ChatInv'
<1> SUFFICES ASSUME ChatInv, Result PROVE ChatInv'
  OBVIOUS
<1>1. /\ pc = "loop" /\ text > 0 /\ pc' = "result" /\ footer' \in BOOLEAN
      /\ UNCHANGED <<platform, text, segStart, tools, active, full, lastSent, viaUpdate,
                     handle, degraded, timer, clock, message, posted, damage>>
  BY DEF Result, previewVars, timerVars, chatVars
<1>2. TypeOK'
  BY <1>1 DEF ChatInv, TypeOK
<1>3. PreviewInv' /\ ToolInv'
  BY <1>1 DEF ChatInv, PreviewInv, ToolInv, WorkPcs, NothingPosted
<1>4. PostedInv' /\ SettledShown'
  BY <1>1 DEF ChatInv, PostedInv, SettledShown, WorkPcs, Settled
<1>. QED  BY <1>1, <1>2, <1>3, <1>4
          DEF ChatInv, SendInv, DoneInv, NoUnitTwice, EveryUnitShown


LEMMA SendRestStep == ChatInv /\ SendRest => ChatInv'
<1> SUFFICES ASSUME ChatInv, SendRest PROVE ChatInv'
  OBVIOUS
<1>1. /\ pc = "result" /\ pc' = "done" /\ tools /\ segStart > 0
      /\ handle' = FALSE /\ degraded' = TRUE
      /\ UNCHANGED <<platform, text, segStart, tools, active, footer, full, lastSent,
                     viaUpdate>>
      /\ TimerType'
      /\ message' \in Messages
      /\ message'.body = message.body
      /\ damage \subseteq damage' /\ damage' \subseteq damage \cup {"undeleted"}
      /\ IF handle THEN message'.there => "undeleted" \in damage'
                   ELSE UNCHANGED message
  BY DiscardFacts DEF SendRest, ChatInv
<1>2. text \in 1 .. MaxText /\ segStart \in 0 .. text
  BY <1>1 DEF ChatInv, ToolInv, TypeOK
<1>3. /\ posted' = [u \in Units |-> posted'[u]]
      /\ \A u \in Units : u <= segStart => posted'[u] = posted[u]
      /\ \A u \in Units : u > text => posted'[u] = posted[u]
      /\ \A u \in Units : segStart < u /\ u <= text => posted'[u] = posted[u] + 1
  <2>1. segStart + 1 \in Int /\ text \in Int
    BY <1>2
  <2>2. /\ posted' = [u \in Units |-> posted'[u]]
        /\ \A u \in Units : segStart + 1 <= u /\ u <= text => posted'[u] = posted[u] + 1
        /\ \A u \in Units : ~(segStart + 1 <= u /\ u <= text) => posted'[u] = posted[u]
    BY <2>1, PostsFacts DEF ChatInv, SendRest
  <2>. QED  BY <1>2, <2>2 DEF Units
<1>4. \A u \in Units : /\ posted[u] = 0 \/ posted[u] = 1
                       /\ u > segStart => posted[u] = 0
  BY <1>1, <1>2 DEF ChatInv, PostedInv, WorkPcs, Units
<1>5. \A u \in Units : /\ posted'[u] = 0 \/ posted'[u] = 1
                       /\ segStart < u /\ u <= text => posted'[u] = 1
  BY <1>2, <1>3, <1>4 DEF Units
<1>6. TypeOK'
  <2>1. posted' \in [Units -> 0 .. 2]
    BY <1>3, <1>5
  <2>2. damage' \subseteq Damages
    BY <1>1 DEF ChatInv, TypeOK, Damages
  <2>. QED  BY <1>1, <2>1, <2>2 DEF ChatInv, TypeOK, TimerType
<1>7. PreviewInv' /\ ToolInv'
  BY <1>1, <1>2 DEF ChatInv, PreviewInv, ToolInv, WorkPcs
<1>8. DoneInv'
  BY <1>1, <1>5 DEF DoneInv
<1>9. NoUnitTwice'
  <2>. SUFFICES ASSUME "undeleted" \notin damage', NEW u \in 1 .. text
                PROVE  Shows(u)' <= 1
    BY <1>1 DEF NoUnitTwice
  <2>1. u \in Units
    BY <1>2 DEF Units
  <2>2. CASE ~message'.there \/ ~(u <= message'.body.n)
    BY <1>5, <2>1, <2>2 DEF Shows
  <2>3. CASE message'.there /\ u <= message'.body.n
    <3>1. ~handle /\ message' = message
      BY <1>1, <2>3
    <3>2. u <= segStart /\ posted[u] = 0
      BY <1>1, <1>2, <2>1, <2>3, <3>1
      DEF ChatInv, PostedInv, WorkPcs, TypeOK, Messages, Contents
    <3>. QED  BY <1>3, <2>1, <2>3, <3>2 DEF Shows
  <2>. QED  BY <2>2, <2>3
<1>10. EveryUnitShown'
  <2>. SUFFICES ASSUME damage' \subseteq {"undeleted"}, NEW u \in 1 .. text
                PROVE  Shows(u)' >= 1
    BY <1>1 DEF EveryUnitShown
  <2>1. u \in Units
    BY <1>2 DEF Units
  <2>2. CASE segStart < u
    BY <1>5, <2>1, <2>2 DEF Shows
  <2>3. CASE u <= segStart
    <3>1. posted[u] = 1 \/ (~handle /\ message.there /\ u <= message.body.n)
      <4>1. damage \subseteq {"undeleted"} /\ u \in 1 .. segStart
        BY <1>1, <1>2, <2>3
      <4>. QED  BY <1>1, <4>1 DEF ChatInv, SettledShown, WorkPcs, Settled
    <3>2. posted'[u] = posted[u]
      BY <1>3, <2>1, <2>3
    <3>3. CASE posted[u] = 1
      BY <3>2, <3>3 DEF Shows
    <3>4. CASE ~handle /\ message.there /\ u <= message.body.n
      BY <1>1, <1>5, <2>1, <3>4 DEF Shows
    <3>. QED  BY <3>1, <3>3, <3>4
  <2>. QED  BY <1>2, <2>2, <2>3
<1>. QED  BY <1>1, <1>6, <1>7, <1>8, <1>9, <1>10
          DEF ChatInv, PostedInv, SettledShown, SendInv, WorkPcs

LEMMA FinishStep == ChatInv /\ Finish => ChatInv'
<1> SUFFICES ASSUME ChatInv, Finish PROVE ChatInv'
  OBVIOUS
<1>1. /\ pc = "result" /\ ~(tools /\ segStart > 0)
      /\ UNCHANGED <<platform, text, segStart, tools, active, footer, full, lastSent,
                     viaUpdate, handle, degraded, posted>>
      /\ TimerType'
      /\ FinishEdits \/ FinishCleans
  BY CancelTimerType DEF Finish, ChatInv, previewVars
<1>2. text \in 1 .. MaxText /\ segStart = 0 /\ NothingPosted
  <2>1. text \in 1 .. MaxText /\ segStart = 0
    BY <1>1 DEF ChatInv, TypeOK, ToolInv, WorkPcs
  <2>. QED  BY <1>1, <2>1 DEF ChatInv, PostedInv, WorkPcs, Units, NothingPosted
<1>3. NothingPosted'
  BY <1>1, <1>2 DEF NothingPosted
<1>4. CASE FinishEdits
  <2>1. pc' = "done" /\ damage' = damage
    BY <1>4 DEF FinishEdits
  <2>2. /\ message' \in Messages
        /\ message'.there /\ message'.body.n = text
        /\ footer /\ ~degraded => message'.body.footer
    <3>1. CASE handle /\ degraded /\ Edits(Whole)
      <4>1. message' = [there |-> TRUE, body |-> Whole]
        BY <3>1 DEF Edits, ChatInv, TypeOK, Messages
      <4>. QED  BY <1>2, <3>1, <4>1 DEF Whole, Messages, Contents
    <3>2. CASE /\ handle /\ ~degraded
               /\ Whole = lastSent /\ viaUpdate /\ ~footer
               /\ UNCHANGED message
      <4>1. message'.there /\ message'.body = Whole
        BY <1>1, <3>2 DEF ChatInv, PreviewInv, WorkPcs
      <4>. QED  BY <3>2, <4>1 DEF ChatInv, TypeOK, Whole
    <3>3. CASE handle /\ ~degraded /\ Edits(Answer)
      <4>1. message' = [there |-> TRUE, body |-> Answer]
        BY <3>3 DEF Edits, ChatInv, TypeOK, Messages
      <4>. QED  BY <1>2, <4>1 DEF Answer, Messages, Contents, ChatInv, TypeOK
    <3>. QED  BY <1>4, <3>1, <3>2, <3>3 DEF FinishEdits
  <2>3. \A u \in 1 .. text : u \in Units /\ posted'[u] = 0 /\ u <= message'.body.n
    BY <1>2, <1>3, <2>2 DEF NothingPosted, Units
  <2>4. TypeOK'
    BY <1>1, <2>1, <2>2 DEF ChatInv, TypeOK, TimerType
  <2>5. PreviewInv' /\ ToolInv'
    BY <1>1, <1>2, <2>1, <2>2 DEF ChatInv, PreviewInv, ToolInv, WorkPcs
  <2>6. DoneInv'
    BY <1>3 DEF DoneInv, NothingPosted
  <2>7. NoUnitTwice'
    BY <1>1, <2>1, <2>3 DEF NoUnitTwice, Shows
  <2>8. EveryUnitShown'
    BY <1>1, <2>1, <2>2, <2>3 DEF EveryUnitShown, Shows
  <2>. QED  BY <2>1, <2>4, <2>5, <2>6, <2>7, <2>8
            DEF ChatInv, PostedInv, SettledShown, SendInv, WorkPcs
<1>5. CASE FinishCleans
  <2>1. /\ pc' = "send"
        /\ message' \in Messages
        /\ message'.body = message.body
        /\ message'.there => message.there
        /\ damage' \subseteq Damages
        /\ IF handle THEN message'.there => "undeleted" \in damage'
                     ELSE UNCHANGED message
    <3>1. CASE ~handle /\ UNCHANGED <<message, damage>>
      BY <1>5, <3>1 DEF FinishCleans, ChatInv, TypeOK
    <3>2. CASE handle /\ Deletes
      BY <1>5, <3>2 DEF FinishCleans, Deletes, ChatInv, TypeOK, Messages, Damages
    <3>3. CASE handle /\ UNCHANGED message /\ damage' = damage \cup {"undeleted"}
      BY <1>5, <3>3 DEF FinishCleans, ChatInv, TypeOK, Damages
    <3>. QED  BY <1>5, <3>1, <3>2, <3>3 DEF FinishCleans
  <2>2. TypeOK'
    BY <1>1, <2>1 DEF ChatInv, TypeOK, TimerType
  <2>3. PreviewInv' /\ ToolInv'
    BY <1>1, <1>2, <2>1 DEF ChatInv, PreviewInv, ToolInv, WorkPcs
  <2>4. SendInv'
    <3>. SUFFICES ASSUME message'.there, "undeleted" \notin damage'
                  PROVE  degraded' /\ message'.body.n = 0
      BY <1>3 DEF SendInv
    <3>1. ~handle /\ message.there /\ message' = message
      BY <2>1
    <3>2. degraded /\ message.body.n <= segStart
      BY <1>1, <3>1 DEF ChatInv, PreviewInv, PostedInv, WorkPcs
    <3>. QED  BY <1>1, <1>2, <3>1, <3>2 DEF ChatInv, TypeOK, Messages, Contents
  <2>. QED  BY <2>1, <2>2, <2>3, <2>4
            DEF ChatInv, PostedInv, SettledShown, DoneInv, NoUnitTwice, EveryUnitShown, WorkPcs
<1>. QED  BY <1>1, <1>4, <1>5

LEMMA SendAnswerStep == ChatInv /\ SendAnswer => ChatInv'
<1> SUFFICES ASSUME ChatInv, SendAnswer PROVE ChatInv'
  OBVIOUS
<1>1. /\ pc = "send" /\ pc' = "done" /\ Posts(1, text)
      /\ UNCHANGED <<platform, text, segStart, tools, active, footer, full, lastSent, viaUpdate,
                     handle, degraded, timer, clock, message, damage>>
  BY DEF SendAnswer, previewVars, timerVars
<1>2. text \in 1 .. MaxText /\ NothingPosted
  BY <1>1 DEF ChatInv, TypeOK, ToolInv, SendInv
<1>3. /\ posted' = [u \in Units |-> posted'[u]]
      /\ \A u \in Units : posted'[u] = 0 \/ posted'[u] = 1
      /\ \A u \in 1 .. text : u \in Units /\ posted'[u] = 1
  <2>1. 1 \in Int /\ text \in Int
    BY <1>2
  <2>2. /\ posted' = [u \in Units |-> posted'[u]]
        /\ \A u \in Units : 1 <= u /\ u <= text => posted'[u] = posted[u] + 1
        /\ \A u \in Units : ~(1 <= u /\ u <= text) => posted'[u] = posted[u]
    BY <1>1, <2>1, PostsFacts DEF ChatInv
  <2>. QED  BY <1>2, <2>2 DEF NothingPosted, Units
<1>4. TypeOK'
  <2>1. posted' \in [Units -> 0 .. 2]
    BY <1>3
  <2>. QED  BY <1>1, <2>1 DEF ChatInv, TypeOK
<1>5. PreviewInv' /\ ToolInv'
  BY <1>1, <1>2 DEF ChatInv, PreviewInv, ToolInv, WorkPcs
<1>6. DoneInv'
  BY <1>1, <1>3 DEF ChatInv, SendInv, DoneInv
<1>7. NoUnitTwice'
  <2>. SUFFICES ASSUME "undeleted" \notin damage, NEW u \in 1 .. text PROVE Shows(u)' <= 1
    BY <1>1 DEF NoUnitTwice
  <2>1. ~(message'.there /\ u <= message'.body.n)
    BY <1>1 DEF ChatInv, SendInv
  <2>. QED  BY <1>3, <2>1 DEF Shows
<1>8. EveryUnitShown'
  <2>1. \A u \in 1 .. text : Shows(u)' >= 1
    BY <1>3 DEF Shows
  <2>2. 1 \in Units /\ posted'[1] = 1
    BY <1>2, <1>3
  <2>. QED  BY <1>1, <2>1, <2>2 DEF EveryUnitShown
<1>. QED  BY <1>1, <1>4, <1>5, <1>6, <1>7, <1>8
          DEF ChatInv, PostedInv, SettledShown, SendInv, WorkPcs

LEMMA FailStep == ChatInv /\ Fail => ChatInv'
<1> SUFFICES ASSUME ChatInv, Fail PROVE ChatInv'
  OBVIOUS
<1>1. /\ pc = "loop" /\ pc' = "failed"
      /\ handle' = FALSE /\ degraded' = TRUE
      /\ UNCHANGED <<platform, text, segStart, tools, active, footer, full, lastSent,
                     viaUpdate, posted>>
      /\ TimerType'
      /\ message' \in Messages
      /\ message'.body = message.body
      /\ damage' \subseteq damage \cup {"undeleted"}
  BY DiscardFacts DEF Fail, ChatInv
<1>2. TypeOK'
  <2>1. damage' \subseteq Damages
    BY <1>1 DEF ChatInv, TypeOK, Damages
  <2>. QED  BY <1>1, <2>1 DEF ChatInv, TypeOK, TimerType
<1>3. PreviewInv' /\ ToolInv'
  BY <1>1 DEF ChatInv, PreviewInv, ToolInv, WorkPcs
<1>. QED  BY <1>1, <1>2, <1>3
          DEF ChatInv, PostedInv, SettledShown, SendInv, DoneInv, NoUnitTwice, EveryUnitShown,
              WorkPcs


-----------------------------------------------------------------------------
(***************************************************************************)
(* The steps of the timer.                                                 *)
(***************************************************************************)

LEMMA FireStep == ASSUME NEW i \in Timers PROVE ChatInv /\ Fire(i) => ChatInv'
<1> SUFFICES ASSUME ChatInv, Fire(i) PROVE ChatInv'
  OBVIOUS
<1>1. /\ UNCHANGED <<platform, pc, text, segStart, tools, active, footer, full, lastSent,
                     viaUpdate, handle, degraded, message, posted, damage>>
      /\ TimerType'
  BY DEF Fire, turnVars, previewVars, chatVars, ChatInv, TypeOK, TimerType
<1>2. TypeOK'
  BY <1>1 DEF ChatInv, TypeOK, TimerType
<1>. QED  BY <1>1, <1>2 DEF ChatInv, PreviewInv, ToolInv, PostedInv, SettledShown, SendInv,
                            DoneInv, NoUnitTwice, EveryUnitShown, NothingPosted, Settled, Shows

(* What the callback may do: nothing while the preview is degraded, else    *)
(* degrade it or edit the message that is there to the text so far.        *)
LEMMA CallbackFacts ==
    ASSUME ChatInv, NEW i \in Timers, Callback(i)
    PROVE  /\ UNCHANGED <<platform, pc, text, segStart, tools, active, footer, full, posted>>
           /\ TimerType'
           /\ lastSent' \in Contents /\ viaUpdate' \in BOOLEAN
           /\ handle' \in BOOLEAN /\ degraded' \in BOOLEAN
           /\ message' \in Messages
           /\ damage \subseteq damage' /\ damage' \subseteq Damages
           /\ "undeleted" \in damage' => "undeleted" \in damage
           /\ pc \in {"send", "done"} /\ damage' \subseteq {"undeleted"} => message' = message
           /\ handle' = handle /\ message'.there = message.there
           /\ degraded => degraded' /\ message' = message
           /\ \/ message' = message /\ (degraded' \/ UNCHANGED <<lastSent, degraded>>)
              \/ /\ ~degraded /\ ~degraded' /\ handle /\ message.there
                 /\ message'.body = lastSent' /\ lastSent' # Empty
                 /\ message'.body.n <= full
<1>1. /\ UNCHANGED <<platform, pc, text, segStart, tools, active, footer, full, posted>>
      /\ TimerType'
  BY DEF Callback, turnVars, ChatInv, TypeOK, TimerType
<1>2. CASE degraded
  <2>1. UNCHANGED <<lastSent, viaUpdate, handle, degraded, message, damage>>
    BY <1>2 DEF Callback
  <2>. QED  BY <1>1, <1>2, <2>1 DEF ChatInv, TypeOK
<1>3. CASE ~degraded
  <2>. DEFINE body == Display(full)
  <2>1. full \in 0 .. MaxText
    BY DEF ChatInv, TypeOK
  <2>2. body \in Contents /\ body.n <= full /\ (full = 0 <=> body = Empty)
    BY <2>1, DisplayFacts
  <2>3. /\ Flush(body)
        /\ damage' = IF pc \in {"send", "done"} /\ message' # message
                     THEN damage \cup {"late"} ELSE damage
    BY <1>3 DEF Callback
  <2>. HIDE DEF body
  <2>4. /\ damage \subseteq damage' /\ damage' \subseteq Damages
        /\ "undeleted" \in damage' => "undeleted" \in damage
        /\ pc \in {"send", "done"} /\ damage' \subseteq {"undeleted"} => message' = message
    BY <2>3 DEF ChatInv, TypeOK, Damages
  <2>5. /\ handle <=> full > 0
        /\ handle <=> lastSent # Empty
        /\ handle \in BOOLEAN
    BY <1>3 DEF ChatInv, PreviewInv, TypeOK
  <2>6. /\ lastSent' \in Contents /\ viaUpdate' \in BOOLEAN
        /\ handle' \in BOOLEAN /\ degraded' \in BOOLEAN
        /\ message' \in Messages
        /\ \/ body = lastSent /\ UNCHANGED <<lastSent, handle, degraded, message>>
           \/ degraded' /\ UNCHANGED <<lastSent, handle, message>>
           \/ /\ handle => message.there
              /\ handle' /\ lastSent' = body /\ degraded' = degraded
              /\ message' = [there |-> TRUE, body |-> body]
              /\ body # lastSent
    BY <2>2, <2>3, FlushFacts DEF ChatInv
  <2>7. CASE UNCHANGED <<lastSent, handle, message>> /\ (degraded' \/ UNCHANGED degraded)
    BY <1>1, <1>3, <2>4, <2>6, <2>7
  <2>8. CASE /\ handle => message.there
             /\ handle' /\ lastSent' = body /\ degraded' = degraded
             /\ message' = [there |-> TRUE, body |-> body]
             /\ body # lastSent
    <3>1. handle /\ message.there /\ body # Empty
      BY <2>1, <2>2, <2>5, <2>8
    <3>2. message'.there = TRUE /\ message.there = TRUE /\ handle = TRUE /\ handle' = TRUE
      BY <2>6, <2>8, <3>1, <2>5 DEF ChatInv, TypeOK, Messages
    <3>. QED  BY <1>1, <1>3, <2>2, <2>4, <2>6, <2>8, <3>1, <3>2
  <2>. QED  BY <2>6, <2>7, <2>8
<1>. QED  BY <1>2, <1>3

LEMMA CallbackStep == ASSUME NEW i \in Timers PROVE ChatInv /\ Callback(i) => ChatInv'
<1> SUFFICES ASSUME ChatInv, Callback(i) PROVE ChatInv'
  OBVIOUS
<1>1. /\ UNCHANGED <<platform, pc, text, segStart, tools, active, footer, full, posted>>
      /\ TimerType'
      /\ lastSent' \in Contents /\ viaUpdate' \in BOOLEAN
      /\ handle' \in BOOLEAN /\ degraded' \in BOOLEAN
      /\ message' \in Messages
      /\ damage \subseteq damage' /\ damage' \subseteq Damages
      /\ "undeleted" \in damage' => "undeleted" \in damage
      /\ pc \in {"send", "done"} /\ damage' \subseteq {"undeleted"} => message' = message
      /\ handle' = handle /\ message'.there = message.there
      /\ degraded => degraded' /\ message' = message
      /\ \/ message' = message /\ (degraded' \/ UNCHANGED <<lastSent, degraded>>)
         \/ /\ ~degraded /\ ~degraded' /\ handle /\ message.there
            /\ message'.body = lastSent' /\ lastSent' # Empty
            /\ message'.body.n <= full
  BY CallbackFacts
<1>2. /\ NothingPosted' <=> NothingPosted
      /\ text \in 0 .. MaxText /\ full \in 0 .. text
  BY <1>1 DEF NothingPosted, ChatInv, TypeOK
<1>3. TypeOK'
  BY <1>1 DEF ChatInv, TypeOK, TimerType
<1>4. PreviewInv'
  <2>1. CASE message' = message /\ (degraded' \/ UNCHANGED <<lastSent, degraded>>)
    BY <1>1, <2>1 DEF ChatInv, PreviewInv
  <2>2. CASE /\ ~degraded /\ ~degraded' /\ handle /\ message.there
             /\ message'.body = lastSent' /\ lastSent' # Empty
             /\ message'.body.n <= full
    <3>1. message'.body.n <= text
      BY <1>1, <1>2, <2>2 DEF Messages, Contents
    <3>. QED  BY <1>1, <2>2, <3>1 DEF ChatInv, PreviewInv
  <2>. QED  BY <1>1, <2>1, <2>2
<1>5. ToolInv'
  BY <1>1, <1>2 DEF ChatInv, ToolInv
<1>6. PostedInv'
  BY <1>1 DEF ChatInv, PostedInv
<1>7. SettledShown'
  BY <1>1 DEF ChatInv, SettledShown, Settled
<1>8. SendInv' /\ DoneInv'
  BY <1>1, <1>2 DEF ChatInv, SendInv, DoneInv
<1>9. NoUnitTwice'
  <2>. SUFFICES ASSUME pc = "done", "undeleted" \notin damage', NEW u \in 1 .. text
                PROVE  Shows(u)' <= 1
    BY <1>1 DEF NoUnitTwice
  <2>1. u \in Units
    BY <1>2 DEF Units
  <2>2. CASE message' = message
    <3>1. "undeleted" \notin damage
      BY <1>1
    <3>. QED  BY <1>1, <2>2, <3>1 DEF ChatInv, NoUnitTwice, Shows
  <2>3. CASE ~degraded /\ message.there
    <3>1. posted[u] = 0
      BY <1>1, <2>1, <2>3 DEF ChatInv, DoneInv, NothingPosted
    <3>. QED  BY <1>1, <3>1 DEF Shows
  <2>. QED  BY <1>1, <2>2, <2>3
<1>10. EveryUnitShown'
  <2>. SUFFICES ASSUME pc = "done", damage' \subseteq {"undeleted"}
                PROVE  EveryUnitShown'
    BY <1>1 DEF EveryUnitShown
  <2>1. message' = message /\ damage \subseteq {"undeleted"} /\ (~degraded' => ~degraded)
    BY <1>1
  <2>. QED  BY <1>1, <2>1 DEF ChatInv, EveryUnitShown, Shows
<1>. QED  BY <1>3, <1>4, <1>5, <1>6, <1>7, <1>8, <1>9, <1>10 DEF ChatInv

-----------------------------------------------------------------------------
LEMMA ChatInit == Init => ChatInv
<1> SUFFICES ASSUME Init PROVE ChatInv
  OBVIOUS
<1>1. Empty \in Contents /\ message \in Messages /\ message.there = FALSE /\ message.body.n = 0
  BY DEF Init, Empty, Contents, Messages
<1>2. TypeOK
  <2>1. /\ posted \in [Units -> 0 .. 2]
        /\ clock \in [Timers -> {"idle", "armed", "fired"}]
    BY DEF Init
  <2>2. text \in 0 .. MaxText /\ segStart \in 0 .. text /\ full \in 0 .. text
    BY DEF Init
  <2>. QED  BY <1>1, <2>1, <2>2 DEF Init, TypeOK
<1>3. PreviewInv /\ ToolInv
  BY <1>1 DEF Init, PreviewInv, ToolInv, NothingPosted
<1>4. PostedInv /\ SettledShown
  BY <1>1 DEF Init, PostedInv, SettledShown
<1>. QED  BY <1>2, <1>3, <1>4
          DEF Init, ChatInv, SendInv, DoneInv, NoUnitTwice, EveryUnitShown

LEMMA ChatStep == ChatInv /\ [Next]_vars => ChatInv'
<1> SUFFICES ASSUME ChatInv, [Next]_vars PROVE ChatInv'
  OBVIOUS
<1>1. CASE Turn
  BY <1>1, TextStep, AppendTextStep, ToolStep, FreezeStep, ResultStep, SendRestStep,
     FinishStep, SendAnswerStep, FailStep DEF Turn
<1>2. CASE \E i \in Timers : Fire(i) \/ Callback(i)
  BY <1>2, FireStep, CallbackStep
<1>3. CASE UNCHANGED vars
  <2>1. UNCHANGED <<platform, pc, text, segStart, tools, active, footer, full, lastSent,
                    viaUpdate, handle, degraded, timer, clock, message, posted, damage>>
    BY <1>3 DEF vars, turnVars, previewVars, timerVars, chatVars
  <2>2. TypeOK'
    BY <2>1 DEF ChatInv, TypeOK
  <2>. QED  BY <2>1, <2>2 DEF ChatInv, PreviewInv, ToolInv, PostedInv, SettledShown, SendInv,
                            DoneInv, NoUnitTwice, EveryUnitShown, NothingPosted, Settled, Shows
<1>. QED  BY <1>1, <1>2, <1>3 DEF Next

LEMMA ChatInvariance == Spec => []ChatInv
  BY ChatInit, ChatStep, PTL DEF Spec

-----------------------------------------------------------------------------
(* Every reachable state is well typed: in particular no unit is ever in    *)
(* more than two messages of its own, and a timer in the field runs.        *)
THEOREM PreviewTypeCorrect == Spec => []TypeOK
<1>1. ChatInv => TypeOK
  BY DEF ChatInv
<1>. QED  BY <1>1, ChatInvariance, PTL

(* An answered turn shows all of its text, in the preview message or in     *)
(* messages of its own, whichever calls to the platform failed, as long as  *)
(* no freeze failed or cut the text and no callback was late.               *)
THEOREM AnswersAreComplete == Spec => []EveryUnitShown
<1>1. ChatInv => EveryUnitShown
  BY DEF ChatInv
<1>. QED  BY <1>1, ChatInvariance, PTL

(* An answered turn shows no part of its text twice, unless a preview of no *)
(* more use could not be deleted.                                           *)
THEOREM AnswersShowOnce == Spec => []NoUnitTwice
<1>1. ChatInv => NoUnitTwice
  BY DEF ChatInv
<1>. QED  BY <1>1, ChatInvariance, PTL

(* A flush after the end of the turn does not bring a deleted preview back. *)
THEOREM DeletedStaysDeleted == Spec => GoneStaysGone
<1>1. ChatInv /\ [Next]_vars =>
        [(pc \in {"send", "done", "failed"} /\ ~message.there) => (message'.there = FALSE)]_vars
  <2>. SUFFICES ASSUME ChatInv, Next, pc \in {"send", "done", "failed"}, ~message.there
                PROVE  message'.there = FALSE
    OBVIOUS
  <2>1. message.there = FALSE
    BY DEF ChatInv, TypeOK, Messages
  <2>2. CASE Turn
    BY <2>1, <2>2 DEF Turn, Text, AppendText, Tool, Freeze, Result, SendRest, Finish,
                      SendAnswer, Fail
  <2>3. ASSUME NEW i \in Timers, Fire(i) PROVE message'.there = FALSE
    BY <2>1, <2>3 DEF Fire, chatVars
  <2>4. ASSUME NEW i \in Timers, Callback(i) PROVE message'.there = FALSE
    BY <2>1, <2>4, CallbackFacts
  <2>. QED  BY <2>2, <2>3, <2>4 DEF Next
<1>. QED  BY <1>1, ChatInvariance, PTL DEF Spec, GoneStaysGone
=============================================================================
