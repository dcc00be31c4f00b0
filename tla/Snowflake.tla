------------------------------ MODULE Snowflake ------------------------------
(***************************************************************************)
(* The id generators of one server process.  Modules that number orders,   *)
(* wallet and point transactions or travel orders keep one generator each. *)
(* An id is its millisecond and its sequence number: the fields do not     *)
(* overlap, and the worker and datacenter bits are the same for all.       *)
(***************************************************************************)
EXTENDS Integers

CONSTANTS
  Generators,  \* the generators kept by the process
  SeqSize,     \* sequence numbers per millisecond, 4096 in the code
  MaxClock     \* bound: milliseconds

ASSUME SeqAssumption == SeqSize \in Nat \ {0}
ASSUME ClockAssumption == MaxClock \in Nat

VARIABLES
  clock,     \* the wall clock, in milliseconds
  gen,       \* last_timestamp and sequence of each generator
  waiting,   \* the generators in _wait_next_millis: it blocks the process
  given,    \* history: ids given out, by generator
  repeated,  \* history: a kept generator gave an id out twice
  rewound    \* history: after a restart a generator's first id fell within or
             \* before the millisecond of an earlier one

snowVars == <<clock, gen, waiting, given, repeated, rewound>>

Clock == 0..MaxClock
Id == [ts : Clock, seq : 0..SeqSize - 1]
New == [last |-> -1, sequence |-> 0]

SnowTypeOK ==
  /\ clock \in Clock
  /\ gen \in [Generators -> [last : Clock \cup {-1}, sequence : 0..SeqSize - 1]]
  /\ waiting \subseteq Generators
  /\ given \in [Generators -> SUBSET Id]
  /\ repeated \in BOOLEAN
  /\ rewound \in BOOLEAN

SnowInit ==
  /\ clock = 0
  /\ gen = [g \in Generators |-> New]
  /\ waiting = {}
  /\ given = [g \in Generators |-> {}]
  /\ repeated = FALSE
  /\ rewound = FALSE

\* The wall clock is adjusted at will.
Tick ==
  /\ clock' \in Clock
  /\ UNCHANGED <<gen, waiting, given, repeated, rewound>>

Issue(g, ts, seq) ==
  /\ gen' = [gen EXCEPT ![g] = [last |-> ts, sequence |-> seq]]
  /\ given' = [given EXCEPT ![g] = @ \cup {[ts |-> ts, seq |-> seq]}]
  /\ repeated' = (repeated \/ [ts |-> ts, seq |-> seq] \in given[g])
  /\ rewound' = (rewound \/ (gen[g] = New /\ \E i \in given[g] : i.ts >= ts))
  /\ UNCHANGED clock

\* Mutant: a full millisecond starts again.
next_id_wrapping(g) ==
  /\ waiting = {}
  /\ clock >= gen[g].last
  /\ Issue(g, clock, IF clock = gen[g].last THEN (gen[g].sequence + 1) % SeqSize
                     ELSE 0)
  /\ UNCHANGED waiting

\* A clock behind the last id is an error and changes nothing.  A millisecond
\* whose numbers are used up makes the process wait, inside the lock.
next_id(g) ==
  LET following == (gen[g].sequence + 1) % SeqSize IN
  /\ waiting = {}
  /\ \/ /\ clock > gen[g].last
        /\ Issue(g, clock, 0)
        /\ UNCHANGED waiting
     \/ /\ clock = gen[g].last /\ following # 0
        /\ Issue(g, clock, following)
        /\ UNCHANGED waiting
     \/ /\ clock = gen[g].last /\ following = 0
        /\ waiting' = {g}
        /\ gen' = [gen EXCEPT ![g].sequence = 0]
        /\ UNCHANGED <<clock, given, repeated, rewound>>

_wait_next_millis(g) ==
  /\ g \in waiting
  /\ clock > gen[g].last
  /\ Issue(g, clock, 0)
  /\ waiting' = {}

\* The process ends, waiting or not, and starts again.
Restart ==
  /\ gen' = [g \in Generators |-> New]
  /\ waiting' = {}
  /\ UNCHANGED <<clock, given, repeated, rewound>>

SnowNext ==
  \/ Tick \/ Restart
  \/ \E g \in Generators : next_id(g) \/ _wait_next_millis(g)

SnowSpec == SnowInit /\ [][SnowNext]_snowVars

-----------------------------------------------------------------------------
(* Properties.                                                             *)

\* A kept generator gives no id out twice, however the clock is adjusted and
\* however many ids a millisecond needs, unless the process restarted and the
\* clock then stood at or before the millisecond of an id it had given out.
IdsDistinct == repeated => rewound
=============================================================================
