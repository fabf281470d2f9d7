----------------------------- MODULE ConsoleModes -----------------------------
(***************************************************************************)
(* What the output splitters promise about text modes: each offers sizes   *)
(* that all its consoles support, and drops none that everybody supports.  *)
(* Modes 0 and 1, which the splitter never drops, are not part of it.      *)
(* ConSplitterTextOut implements this specification.                       *)
(***************************************************************************)
EXTENDS Naturals

CONSTANTS
  Devices,    \* the physical text consoles
  Splitters,  \* the virtual consoles
  Own(_),     \* the sizes of a console's modes from 2 on
  Sizes(_)    \* the sizes of all its modes

VARIABLES
  consoles,   \* consoles[s]: the consoles of a splitter
  offered     \* offered[s]: the sizes it offers

modesVars == <<consoles, offered>>

AllSizes == UNION {Sizes(d) : d \in Devices}

Common(devs) == {z \in AllSizes : \A d \in devs : z \in Sizes(d)}

ModesInit ==
  /\ consoles = [s \in Splitters |-> {}]
  /\ offered = [s \in Splitters |-> {}]

\* Sizes nobody objects to when the consoles of s become devs: s would offer them
\* by itself, and the other splitters, unless they have no console, offer them too.
Agreed(s, devs, candidates) ==
  {z \in candidates : /\ \A d \in devs : z \in Sizes(d)
                      /\ \A t \in Splitters \ {s} : consoles[t] = {} \/ z \in offered[t]}

\* The consoles of s become devs; candidates are what s offers of itself.
Change(s, devs, candidates) ==
  /\ consoles' = [consoles EXCEPT ![s] = devs]
  /\ offered' \in [Splitters -> SUBSET AllSizes]
  /\ offered'[s] \subseteq candidates \cap Common(devs)
  /\ \A t \in Splitters \ {s} : offered'[t] \subseteq offered[t]
  /\ \A t \in Splitters :
       consoles'[t] # {} => Agreed(s, devs, candidates) \subseteq offered'[t]

Attach(s, d) ==
  /\ d \notin consoles[s]
  /\ Change(s, consoles[s] \cup {d}, IF consoles[s] = {} THEN Own(d) ELSE offered[s])

\* When a console goes, sizes only it lacked come back: at least those that are
\* a mode from 2 on of every console left, at most those of one of them.
Detach(s, d) ==
  /\ d \in consoles[s]
  /\ LET left == consoles[s] \ {d}
     IN  IF left = {}
           THEN Change(s, left, {})
           ELSE \E first \in left : Change(s, left, Own(first))

ModesNext == \E s \in Splitters, d \in Devices : Attach(s, d) \/ Detach(s, d)

ModesSpec == ModesInit /\ [][ModesNext]_modesVars
=============================================================================
