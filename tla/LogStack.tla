------------------------------ MODULE LogStack ------------------------------
(***************************************************************************)
(* dsLogComponentManager and dsLog (share/dsLog.h, share/dsLog.cxx): the    *)
(* stack of components that says which part of the daemon a message comes   *)
(* from and how much of it is written.  A line of the log is [name, parts]. *)
(***************************************************************************)
EXTENDS Integers, Sequences, SequencesExt

CONSTANT MaxStack   \* MAX_LOG_COMPONENT_STACK

\* The manager, and the lines written; open says that the last one has no end yet.
\* The verbosity of "sys" is 99 until it is read from the rc file.
NewLog == [stack |-> <<"sys">>, verbosity |-> 99, lines |-> <<>>, open |-> FALSE]

current_name(log) == Last(log.stack)

\* rc maps the components that have a log-<name> in the rc file to it.
verbosity(rc, name) == IF name \in DOMAIN rc THEN rc[name] ELSE 99

push_component(rc, log, name) ==
    IF Len(log.stack) = MaxStack THEN log
    ELSE [log EXCEPT !.stack = Append(@, name), !.verbosity = verbosity(rc, name)]

\* Mutant: the verbosity is left as it was.
pop_component_verbose(rc, log) ==
    IF Len(log.stack) = 1 THEN log ELSE [log EXCEPT !.stack = Front(@)]

pop_component(rc, log) ==
    IF Len(log.stack) = 1 THEN log
    ELSE LET below == Front(log.stack)
         IN [log EXCEPT !.stack = below, !.verbosity = verbosity(rc, Last(below))]

\* A banner begins a line; without one the text goes behind what is there.
log_write(log, banner, eol, priority) ==
    IF priority # 0 /\ log.verbosity < priority THEN log
    ELSE LET line == IF banner THEN [name |-> current_name(log), parts |-> 0] ELSE Last(log.lines)
             before == IF banner THEN log.lines ELSE Front(log.lines)
         IN [log EXCEPT !.lines = Append(before, [line EXCEPT !.parts = @ + 1]), !.open = ~eol]

\* error, warn, info, debug: 1, 2, 3, 4; print: 0.
print(log, priority) == log_write(log, TRUE, TRUE, priority)

\* print_start, print_add for each of n values, print_eol: how a dump writes a line.
print_values(log, n) ==
    LET Added[i \in 0..n] ==
            IF i = 0 THEN log_write(log, TRUE, FALSE, 0) ELSE log_write(Added[i - 1], FALSE, FALSE, 0)
    IN log_write(Added[n], FALSE, TRUE, 0)

\* A call: <<operation, name, priority or number of values>>.
Done(rc, log, c) ==
    CASE c[1] = "push" -> push_component(rc, log, c[2])
      [] c[1] = "pop" -> pop_component(rc, log)
      [] c[1] = "print" -> print(log, c[3])
      [] c[1] = "values" -> print_values(log, c[3])

LogAfter(rc, calls) ==
    LET Log[i \in 0..Len(calls)] == IF i = 0 THEN NewLog ELSE Done(rc, Log[i - 1], calls[i])
    IN Log[Len(calls)]
=============================================================================
