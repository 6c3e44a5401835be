------------------------------ MODULE Reminders ------------------------------
(***************************************************************************)
(* When a reminder asked for in a chat message goes off, and what it says  *)
(* (services/incoming-dispatcher.service.ts: the two detectors of a wish   *)
(* and the two parsers, which know different phrases).                     *)
(*                                                                         *)
(* A phrase is what the patterns tell apart: the verb, the order of verb,  *)
(* time and content, a time of day or a delay, how the time is written,    *)
(* and whether the content is a pronoun ("việc đó").  What they treat      *)
(* alike is one: "báo" is as "nhắn", "h" as "giờ" in a delay, "lúc 7" as   *)
(* "lúc 7h", "vào" as no "lúc", and "về" belongs to the content.  Times    *)
(* are seconds of a day; the addressee is always "mình".                   *)
(***************************************************************************)
EXTENDS Integers

CONSTANTS
    Now,      \* times at which a message may come, in seconds of the day
    Spoken,   \* times of day people say: <<hour, minute>>
    Delay     \* numbers of units people say

Day == 24 * 3600

ASSUME RemindersAssumption ==
    /\ Now \subseteq Nat /\ \A now \in Now : now < Day
    /\ Spoken \subseteq Nat \X Nat /\ \A said \in Spoken : said[1] < 100 /\ said[2] < 60
    /\ Delay \subseteq Nat

VARIABLES asked, plan

remindVars == <<asked, plan>>

Period == {"none", "sang", "trua", "chieu", "toi", "pm"}
Unit == [giay |-> 1, p |-> 60, phut |-> 60, gio |-> 3600, tieng |-> 3600, ngay |-> Day]

\* "nhắc mình đi lễ lúc 19h", "lúc 7:30 tối mai nhắc mình đi lễ", "nhắc mình việc đó 7h tối":
\* the clock is written "7h", "7h30", "7:30" or "7 giờ", and a day may follow, "nay" or "mai".
AtPhrase ==
    [kind : {"at"}, verb : {"nhac", "nhan"}, order : {"verb time", "verb content time", "time verb"},
     clock : Spoken, written : {"h", "colon", "gio"}, period : Period, day : {"none", "nay", "mai"},
     luc : BOOLEAN, pronoun : BOOLEAN]

\* "nhắc mình 5 phút nữa", "5 phút nữa nhắc", "sau 5 phút nhắc", "nhắc mình sau 5 phút".
InPhrase ==
    [kind : {"in"}, verb : {"nhac", "nhan"},
     order : {"verb time", "verb content time", "time verb", "after", "verb after"},
     number : Delay, unit : DOMAIN Unit, pronoun : BOOLEAN]

Phrase == AtPhrase \cup InPhrase

None == [flow |-> "none"]
RemindInit == asked = None /\ plan = None

-----------------------------------------------------------------------------
\* The flow of a reminder with its content in the message.

\* The patterns of detectCreateReminderIntent, by what they ask of a phrase.
detectCreateReminderIntent(p) ==
    \/ p.kind = "at" /\ p.luc /\ p.order = "verb time"
    \/ p.kind = "at" /\ p.luc /\ p.order = "verb content time" /\ p.verb = "nhac"
    \/ p.kind = "in" /\ p.order \in {"after", "verb after"}
    \/ p.kind = "in" /\ p.order = "verb time" /\ (p.verb = "nhac" \/ p.unit = "p")
    \/ p.kind = "in" /\ p.order = "time verb" /\ (p.verb = "nhac" \/ p.unit \notin {"tieng", "ngay"})

\* The pattern's timeStr: minutes only after a colon, then one word, right after what it has
\* read of the clock. In "7h30 tối" and "7 giờ tối" the word is not reached, "pm" is none.
Minute(p) == IF p.written = "colon" THEN p.clock[2] ELSE 0
PeriodRead(p) ==
    IF p.period = "pm" \/ p.written = "gio" \/ (p.written = "h" /\ p.clock[2] # 0)
    THEN "none" ELSE p.period

\* The hour taken: a period, "trưa" too, moves the hours before noon, and without one those
\* up to six are of the afternoon. Of "nay" and "mai" nothing is made.
Hour(p) ==
    IF \/ PeriodRead(p) \in {"trua", "chieu", "toi"} /\ p.clock[1] < 12
       \/ PeriodRead(p) = "none" /\ p.clock[1] \in 1 .. 6
    THEN p.clock[1] + 12 ELSE p.clock[1]

\* A plausible defect: a time that has passed is not moved to the next day.
parseLucTimeToday(p, now) == 3600 * Hour(p) + 60 * Minute(p) - now

\* The time of day as a delay; one that has passed is tomorrow's.
parseLucTime(p, now) ==
    LET off == 3600 * Hour(p) + 60 * Minute(p) - now IN IF off < 0 THEN off + Day ELSE off

\* The delay parseReminderFromMessage finds, 0 when no pattern takes the phrase: a time of
\* day only after "nhắc" and "lúc", a delay before the verb only in some units, and none after
\* "nhắc mình sau".
Offset(p, now) ==
    IF p.kind = "at"
    THEN IF p.luc /\ p.verb = "nhac" /\ p.order # "time verb" THEN parseLucTime(p, now) ELSE 0
    ELSE IF \/ p.order \in {"verb time", "after"}
            \/ p.order = "time verb" /\ p.unit \notin {"tieng", "ngay"}
         THEN p.number * Unit[p.unit] ELSE 0

\* Right before a time of day the content is taken to be the addressee.
Content(p) ==
    IF p.kind = "at" /\ p.order = "verb time" THEN "addressee"
    ELSE IF p.pronoun THEN "pronoun" ELSE "said"

AtLeast(least, off) == IF off < least THEN least ELSE off

parseReminderFromMessage(p, now) ==
    IF Offset(p, now) = 0 THEN None
    ELSE [flow |-> "create", delay |-> AtLeast(10, Offset(p, now)), content |-> Content(p)]

-----------------------------------------------------------------------------
\* The flow of a reminder of "that": its content is what the chat was about.

detectContextReminderIntent(p) ==
    /\ p.pronoun
    /\ p.kind = "at" => p.luc \/ p.written = "h"
    /\ p.kind = "in" => p.order \notin {"after", "verb after"}

\* After "lúc" it reads any writing, but no minutes; without it, only "7h tối" and the like.
\* Its hours are those of the message, but for evening and afternoon, wherever the message
\* says so, and a time that is now is tomorrow's.
ContextReads(p) == p.luc \/ (p.written = "h" /\ p.clock[2] = 0 /\ p.period \notin {"none", "pm"})
ContextHour(p) ==
    IF p.period \in {"chieu", "toi", "pm"} /\ p.clock[1] < 12 THEN p.clock[1] + 12 ELSE p.clock[1]
parseContextReminderTime(p, now) ==
    IF p.kind = "at"
    THEN IF ContextReads(p)
         THEN LET off == 3600 * ContextHour(p) - now
              IN AtLeast(60, IF off <= 0 THEN off + Day ELSE off)
         ELSE 0
    ELSE IF p.unit = "ngay" THEN 0 ELSE AtLeast(10, p.number * Unit[p.unit])

\* The plan, or the question what is meant when nothing in the chat can be.
FromContext(p, now, recalled) ==
    IF recalled THEN [flow |-> "context", delay |-> parseContextReminderTime(p, now), content |-> "recalled"]
    ELSE [flow |-> "clarify"]

-----------------------------------------------------------------------------
\* What handleIncomingMessage makes of a phrase: with a question pending nothing; else the
\* first flow, and when it does not understand the time, the second; else Hermes.
Planned(p, now, open, recalled) ==
    IF ~open /\ detectCreateReminderIntent(p) /\ parseReminderFromMessage(p, now) # None
    THEN parseReminderFromMessage(p, now)
    ELSE IF ~open /\ detectContextReminderIntent(p) /\ parseContextReminderTime(p, now) # 0
    THEN FromContext(p, now, recalled)
    ELSE [flow |-> "hermes"]

Ask(p, now, open, recalled) ==
    /\ asked' = [flow |-> "asked", phrase |-> p, now |-> now, open |-> open]
    /\ plan' = Planned(p, now, open, recalled)

RemindNext ==
    /\ asked = None
    /\ \E p \in Phrase, now \in Now, open \in BOOLEAN, recalled \in BOOLEAN : Ask(p, now, open, recalled)

RemindSpec == RemindInit /\ [][RemindNext]_remindVars

-----------------------------------------------------------------------------
\* Properties.

\* The state has its type.
RemindTypeOK ==
    /\ asked = None \/ asked.phrase \in Phrase
    /\ plan.flow \in {"none", "create", "context", "clarify", "hermes"}

Plans == plan.flow \in {"create", "context"}

\* Whatever the phrase, a reminder is at least ten seconds ahead, never in the past, and one
\* for an hour of the clock is due within a day, also when the message says "mai" (the
\* minimum of both parsers).
DueIsAhead ==
    Plans => /\ plan.delay >= 10
             /\ asked.phrase.kind = "at" /\ asked.phrase.clock[1] < 24 => plan.delay <= Day

\* The reminder goes off at an hour, at the minutes the first parser keeps of the clock, or,
\* when that is nearer than the minimum, then.
GoesOffAt(hour) ==
    LET p == asked.phrase
        due == 3600 * hour + (IF plan.flow = "create" THEN 60 * Minute(p) ELSE 0)
        least == IF plan.flow = "create" THEN 10 ELSE 60
    IN \/ (asked.now + plan.delay) % Day = due
       \/ plan.delay = least /\ (due - asked.now) % Day < least

\* What a phrase says of the hour, where it says it plainly: with a period that suits the
\* hour and stands where it is read, or with an hour that needs none.
Plain(p) ==
    /\ PeriodRead(p) = p.period
    /\ \/ p.period = "none" /\ p.clock[1] \in 7 .. 23
       \/ p.period = "sang" /\ p.clock[1] \in 1 .. 11
       \/ p.period = "trua" /\ p.clock[1] = 12
       \/ p.period \in {"chieu", "toi"} /\ p.clock[1] \in 1 .. 23 /\ p.clock[1] # 12
Meant(p) ==
    IF p.period \in {"chieu", "toi"} /\ p.clock[1] < 12 THEN p.clock[1] + 12 ELSE p.clock[1]

\* A reminder for a plain time goes off at that hour: to the minute after a colon, at the
\* full hour for "7h30" and for "that" (parseLucTime, parseContextReminderTime).
HourIsKept ==
    Plans /\ asked.phrase.kind = "at" /\ Plain(asked.phrase) => GoesOffAt(Meant(asked.phrase))

\* Any other goes off at the hour the message names, or twelve hours later, never elsewhere:
\* "7h30 tối" in the morning, "11h trưa" at night (the hour adjustments of both parsers).
HourOrTwelveLater ==
    Plans /\ asked.phrase.kind = "at" /\ asked.phrase.clock[1] < 24 =>
        LET hour == asked.phrase.clock[1] IN GoesOffAt(hour) \/ (hour < 12 /\ GoesOffAt(hour + 12))

\* A delay is kept to the second, or lifted to the minimum (the patterns with "nữa").
DelayIsKept ==
    Plans /\ asked.phrase.kind = "in" =>
        plan.delay = AtLeast(10, asked.phrase.number * Unit[asked.phrase.unit])

\* The two parsers agree on a plain full hour after "lúc", unless it is less than a minute
\* away (parseReminderFromMessage, parseContextReminderTime).
ParsersAgree ==
    /\ asked # None
    /\ asked.phrase.kind = "at" /\ asked.phrase.luc /\ Plain(asked.phrase) /\ Minute(asked.phrase) = 0
    => LET first == parseLucTime(asked.phrase, asked.now)
       IN first = parseContextReminderTime(asked.phrase, asked.now) \/ first \in 0 .. 59

\* With a question pending no phrase makes a reminder (activeConvState).
PendingTakesTheTurn == asked # None /\ asked.open => plan.flow = "hermes"

\* A reminder goes off when it was asked for.
RemindersAreDue ==
    DueIsAhead /\ HourIsKept /\ HourOrTwelveLater /\ DelayIsKept /\ ParsersAgree /\ PendingTakesTheTurn
=============================================================================
