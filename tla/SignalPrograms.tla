--------------------------- MODULE SignalPrograms ---------------------------
(***************************************************************************)
(* chapter07/sig_alarm.c, a sum to be answered before an alarm, and        *)
(* sig_timer.c, a clock that is stopped by SIGINT.  A handler runs between *)
(* any two steps of main.                                                  *)
(***************************************************************************)
EXTENDS Integers

CONSTANT MaxTicks  \* bound: the half seconds sig_timer is left running

VARIABLES
    at,       \* the next step of the program that runs
    timer,    \* alarm: "set", "off", or "fired" when its signal has come
    input,    \* what the user has entered: "right", "wrong", or "unread"
    verdict,  \* what main printed of it
    now,      \* the time, in half seconds
    start,    \* sig_timer's start, in seconds
    wake,     \* the end of its sleep
    dots,     \* the dots it has printed
    shown     \* the seconds it has printed, or NotShown

signalVars == <<at, timer, input, verdict, now, start, wake, dots, shown>>

alarmVars == <<timer, input, verdict>>
timerVars == <<now, start, wake, dots, shown>>

NotShown == -1

SignalInit ==
    /\ at = "off"
    /\ timer = "off" /\ input = "unread" /\ verdict = "none"
    /\ now = 0 /\ start = 0 /\ wake = 0 /\ dots = 0 /\ shown = NotShown
-----------------------------------------------------------------------------
(***************************************************************************)
(* sig_alarm                                                               *)
(***************************************************************************)
\* signal, the question, and alarm(5).
Ask ==
    /\ at = "off" /\ at' = "answer"
    /\ timer' = "set"
    /\ UNCHANGED <<input, verdict, timerVars>>

\* The five seconds are over, wherever main is: func prints that time is up,
\* and a scanf that was waiting is restarted.
AlarmFires ==
    /\ timer = "set" /\ timer' = "fired"
    /\ UNCHANGED <<at, input, verdict, timerVars>>

\* scanf; what is no number is left unread, and in_ans as it was.
Answer(i) ==
    /\ at = "answer" /\ at' = "cancel"
    /\ input' = i
    /\ UNCHANGED <<timer, verdict, timerVars>>

\* Mutant of Cancel: the alarm is left on.
CancelNot == at = "cancel" /\ at' = "judge" /\ UNCHANGED <<alarmVars, timerVars>>

\* alarm(0)
Cancel ==
    /\ at = "cancel" /\ at' = "judge"
    /\ timer' = IF timer = "set" THEN "off" ELSE timer
    /\ UNCHANGED <<input, verdict, timerVars>>

\* ans == in_ans, of an uninitialised in_ans when nothing was read.
Judge ==
    /\ at = "judge" /\ at' = "done"
    /\ verdict' \in IF input = "unread" THEN {"right", "wrong"} ELSE {input}
    /\ UNCHANGED <<timer, input, timerVars>>
-----------------------------------------------------------------------------
(***************************************************************************)
(* sig_timer                                                               *)
(***************************************************************************)
Seconds(ticks) == ticks \div 2

\* The program starts at either half of a second; time(&start).
StartTimer(tick) ==
    /\ at = "off" /\ at' = "signal"
    /\ now' = tick /\ start' = Seconds(tick)
    /\ UNCHANGED <<alarmVars, wake, dots, shown>>

\* signal(SIGINT, stop), and into the first sleep.
Install ==
    /\ at = "signal" /\ at' = "sleep"
    /\ wake' = now + 2
    /\ UNCHANGED <<alarmVars, now, start, dots, shown>>

\* Time goes on, also while a program that could run does not.
Tick ==
    /\ at \in {"signal", "sleep"} /\ now < MaxTicks
    /\ now' = now + 1
    /\ UNCHANGED <<at, alarmVars, start, wake, dots, shown>>

\* The sleep is over: a dot, and the next sleep.
Dot ==
    /\ at = "sleep" /\ now >= wake
    /\ dots' = dots + 1
    /\ wake' = now + 2
    /\ UNCHANGED <<at, alarmVars, now, start, shown>>

\* SIGINT before its handler is there ends the program; afterwards stop prints
\* the seconds and exits.
Interrupt ==
    /\ at \in {"signal", "sleep"} /\ at' = "done"
    /\ shown' = IF at = "sleep" THEN Seconds(now) - start ELSE NotShown
    /\ UNCHANGED <<alarmVars, now, start, wake, dots>>

SignalMain == Cancel \/ Judge \/ Install

SignalNext ==
    \/ Ask \/ AlarmFires \/ (\E i \in {"right", "wrong", "unread"} : Answer(i))
    \/ (\E tick \in 0..1 : StartTimer(tick)) \/ Tick \/ Dot \/ Interrupt
    \/ SignalMain

SignalFairness == WF_signalVars(SignalMain)
-----------------------------------------------------------------------------
SignalTypeOK ==
    /\ at \in {"off", "answer", "cancel", "judge", "signal", "sleep", "done"}
    /\ timer \in {"off", "set", "fired"}
    /\ input \in {"right", "wrong", "unread"}
    /\ verdict \in {"none", "right", "wrong"}
    /\ now \in 0..(MaxTicks + 1) /\ start \in 0..1 /\ wake \in Nat /\ dots \in Nat
    /\ shown \in Nat \cup {NotShown}

\* sig_alarm: once the answer is judged the alarm can no longer come, and the
\* verdict is that of the user's number, also when the alarm met main between
\* the answer and alarm(0).  sig_timer: it shows no fewer seconds than it has
\* printed dots, wherever in a second it was started and stopped.
OnTime ==
    /\ at = "judge" \/ verdict # "none" => timer # "set"
    /\ verdict # "none" /\ input # "unread" => verdict = input
    /\ shown # NotShown => dots <= shown

\* An answer is judged.
SignalEnds == at = "cancel" ~> verdict # "none"
=============================================================================
