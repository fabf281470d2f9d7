-------------------------------- MODULE ArmMmu --------------------------------
(***************************************************************************)
(* The translation tables of the ARM MMU: built at boot from the board's   *)
(* memory map (MemoryInitPeiLib/MemoryInitPeiLib.c, ArmMmuLib/Arm/         *)
(* ArmMmuLibCore.c) and changed by ArmSetMemoryAttributes                  *)
(* (ArmMmuLibUpdate.c).  A step is one write of a table entry, so that the *)
(* processor can fetch a translation between any two.  An address is a     *)
(* record of its section and its page in it.                               *)
(***************************************************************************)
EXTENDS Integers, Sequences

CONSTANTS
  NS,            \* TRANSLATION_TABLE_SECTION_COUNT (4096)
  P,             \* TRANSLATION_TABLE_PAGE_COUNT (256)
  MemoryMaps,    \* sequences of [from, length, HobOption, attr]: gDeviceMemoryDescriptorEx
  Watched,       \* the pages one of which has its TLB entries watched
  Requests,      \* [cache, ro, xp]: the Attributes argument
  MaxCalls,      \* a bound on the calls
  NoRequest

Sections == 0..(NS - 1)
PageIndexes == 0..(P - 1)
Addresses == [sec : Sections, page : PageIndexes]

\* The number of a page, and the page of a number.
Number(a) == a.sec * P + a.page
PageAt(n) == [sec |-> n \div P, page |-> n % P]

\* What the fields of a descriptor allow.
Caches == {"UC", "WC", "WT", "WB"}
Accesses == [cache : Caches, ap : {"NONE", "RO", "RW"}, xn : BOOLEAN]

Regions == [from : Addresses, length : Nat \ {0}, attr : Accesses,
            HobOption : {"NoHob", "AddMem", "AddDev", "HobOnlyNoCacheSetting"}]
In(a, r) == Number(a) \in Number(r.from)..(Number(r.from) + r.length - 1)

\* A region shorter than a section ends in the section it starts in, and the regions that
\* are mapped leave no part of a section out, as in the board's map.
ASSUME MmuSizes == NS \in Nat \ {0} /\ P \in Nat \ {0} /\ MaxCalls \in Nat
ASSUME MmuMaps ==
  \A map \in MemoryMaps :
    /\ map \in Seq(Regions)
    /\ \A k \in DOMAIN map : map[k].length >= P \/ map[k].from.page + map[k].length <= P
    /\ LET mapped == {k \in DOMAIN map : map[k].HobOption # "HobOnlyNoCacheSetting"}
       IN  \A a, b \in Addresses :
             a.sec = b.sec /\ (\E k \in mapped : In(a, map[k])) => \E k \in mapped : In(b, map[k])
ASSUME MmuRequests ==
  /\ NoRequest \notin Requests
  /\ Requests \subseteq [cache : Caches \cup {"", "UNSUPPORTED"}, ro : BOOLEAN, xp : BOOLEAN]
ASSUME MmuWatched == Watched \subseteq Addresses

VARIABLES
  ttb,           \* the tables: section -> descriptor
  hobs,          \* the regions that DXE is told of
  regions,       \* MemoryDescriptor: the regions to be mapped
  index,         \* how many of them have been begun
  pc,
  request,       \* Attributes of the call, or the region's while it is mapped
  at, left,      \* BaseAddress (PhysicalBase) and Length (RemainLength)
  chunk,         \* what is left of the pages or sections being updated
  FlushTlbs,
  status,
  watched, tlb,  \* a page, and {} or the translation of it that is cached
  calls

bootVars == <<hobs, regions, index>>
callVars == <<request, at, left, chunk, FlushTlbs, status, calls>>
mmuVars == <<ttb, bootVars, pc, callVars, watched, tlb>>

Lesser(a, b) == IF a <= b THEN a ELSE b

-----------------------------------------------------------------------------
(***************************************************************************)
(* Descriptors.                                                            *)
(***************************************************************************)
Fault == [kind |-> "fault"]
Section(s, attr) == [kind |-> "section", to |-> s, attr |-> attr]
Page(s, i, attr) == [kind |-> "page", to |-> [sec |-> s, page |-> i], attr |-> attr]
Table(pages) == [kind |-> "table", pages |-> pages]

\* The fields of a descriptor that is all zeroes: strongly ordered, no access.
ZeroAttr == [cache |-> "UC", ap |-> "NONE", xn |-> FALSE]

\* ConvertSectionAttributesToPageAttributes on every page.  A section that is not
\* mapped becomes pages that are, but may not be accessed.
AsPages(s) ==
  [i \in PageIndexes |-> Page(s, i, IF ttb[s].kind = "section" THEN ttb[s].attr ELSE ZeroAttr)]

\* What the attributes of a request make of those of an entry.
Updated(r, attr) ==
  [cache |-> IF r.cache = "" THEN attr.cache ELSE r.cache,
   ap |-> IF r.ro THEN "RO" ELSE "RW",
   xn |-> r.xp]

\* The processor's table walk: nothing, or a translation and what it covers.
Walk(a) ==
  LET d == ttb[a.sec]
  IN  CASE d.kind = "section" -> {[grain |-> "section", to |-> [a EXCEPT !.sec = d.to], attr |-> d.attr]}
        [] d.kind = "table" /\ d.pages[a.page].kind = "page" ->
             {[grain |-> "page", to |-> d.pages[a.page].to, attr |-> d.pages[a.page].attr]}
        [] OTHER -> {}

-----------------------------------------------------------------------------
(***************************************************************************)
(* Boot: MemoryPeim and ArmConfigureMmu.  Allocations succeed here: the    *)
(* heap is empty, and PopulateLevel2PageTable does not look.               *)
(***************************************************************************)
Init ==
  /\ ttb = [s \in Sections |-> Fault]
  /\ regions \in MemoryMaps
  /\ hobs = <<>> /\ index = 0
  /\ pc = "PEIM"
  /\ request = NoRequest /\ at = [sec |-> 0, page |-> 0] /\ left = 0 /\ chunk = 0
  /\ FlushTlbs = FALSE /\ status = "SUCCESS"
  /\ watched \in Watched /\ tlb = {}
  /\ calls = 0

\* MemoryPeim: which regions DXE is told of, and which are mapped.
MemoryPeim ==
  /\ pc = "PEIM"
  /\ hobs' = SelectSeq(regions, LAMBDA r : r.HobOption # "NoHob")
  /\ LET Mapped[k \in 0..Len(regions)] ==
           IF k = 0 THEN <<>>
           ELSE IF regions[k].HobOption # "HobOnlyNoCacheSetting"
                  THEN Append(Mapped[k - 1], regions[k])
           ELSE Mapped[k - 1]
     IN  regions' = Mapped[Len(regions)]
  /\ pc' = "FILL"
  /\ UNCHANGED <<ttb, index, callVars, watched, tlb>>

\* The loop of ArmConfigureMmu over the regions; at its end the MMU goes on with an
\* empty TLB.
FillTranslationTable ==
  /\ pc = "FILL" /\ left = 0 /\ index < Len(regions)
  /\ index' = index + 1
  /\ request' = regions[index'].attr
  /\ at' = regions[index'].from
  /\ left' = Lesser(regions[index'].length, (NS - at'.sec) * P - at'.page)
  /\ UNCHANGED <<ttb, hobs, regions, pc, chunk, FlushTlbs, status, watched, tlb, calls>>

FillSection ==
  /\ pc = "FILL" /\ at.page = 0 /\ left >= P
  /\ ttb' = [ttb EXCEPT ![at.sec] = Section(at.sec, request)]
  /\ at' = [at EXCEPT !.sec = @ + 1]
  /\ left' = left - P
  /\ UNCHANGED <<bootVars, pc, request, chunk, FlushTlbs, status, watched, tlb, calls>>

\* The pages that PopulateLevel2PageTable finds or makes.
Level2PagesAnew(s) == [i \in PageIndexes |-> Fault]   \* mutant: no overlap expected

Level2Pages(s) ==
  CASE ttb[s].kind = "table" -> ttb[s].pages
    [] ttb[s].kind = "section" -> AsPages(s)
    [] OTHER -> [i \in PageIndexes |-> Fault]

\* What is left is given up when it was less than a section before these pages.
PopulateLevel2PageTable ==
  /\ pc = "FILL" /\ left > 0 /\ ~(at.page = 0 /\ left >= P)
  /\ LET n == Lesser(left, P - at.page)
     IN  /\ ttb' = [ttb EXCEPT ![at.sec] =
                      Table([i \in PageIndexes |->
                               IF i \in at.page..(at.page + n - 1)
                                 THEN Page(at.sec, i, request) ELSE Level2Pages(at.sec)[i]])]
         /\ at' = [sec |-> at.sec + 1, page |-> 0]
         /\ left' = IF left < P THEN 0 ELSE left - n
  /\ UNCHANGED <<bootVars, pc, request, chunk, FlushTlbs, status, watched, tlb, calls>>

EnableMmu ==
  /\ pc = "FILL" /\ left = 0 /\ index = Len(regions)
  /\ pc' = "IDLE" /\ request' = NoRequest
  /\ UNCHANGED <<ttb, bootVars, at, left, chunk, FlushTlbs, status, watched, tlb, calls>>

Boot == MemoryPeim \/ FillTranslationTable \/ FillSection \/ PopulateLevel2PageTable \/ EnableMmu

-----------------------------------------------------------------------------
(***************************************************************************)
(* ArmSetMemoryAttributes, also called by ArmSetMemoryRegionNoExec,        *)
(* ...ReadOnly and the two that clear.                                     *)
(***************************************************************************)
Call ==
  /\ pc = "IDLE" /\ calls < MaxCalls
  /\ calls' = calls + 1
  /\ request' \in Requests
  /\ \E a \in Addresses, n \in 1..(NS * P) :
       /\ at' = a
       /\ left' = Lesser(n, (NS - a.sec) * P - a.page)
  /\ pc' = "LOOP" /\ chunk' = 0 /\ FlushTlbs' = FALSE
  /\ UNCHANGED <<ttb, bootVars, status, watched, tlb>>

\* No length, or an address that does not exist.
CallOfNothing ==
  /\ pc = "IDLE" /\ calls < MaxCalls
  /\ calls' = calls + 1
  /\ status' \in {"SUCCESS", "UNSUPPORTED"}
  /\ UNCHANGED <<ttb, bootVars, pc, request, at, left, chunk, FlushTlbs, watched, tlb>>

\* The next chunk: whole sections if it can be, else pages up to a section's start
\* after which at least a section is left, else pages to the end.
PageChunkOverrun == P - at.page   \* mutant: less may be left
PageChunk == IF (P - at.page) + P > left THEN left ELSE P - at.page

NextChunk ==
  /\ pc \in {"LOOP", "PAGES", "SECTIONS"} /\ chunk = 0 /\ left > 0
  /\ LET whole == at.page = 0 /\ left >= P
     IN  /\ FlushTlbs' = (FlushTlbs \/ whole)
         /\ IF request.cache = "UNSUPPORTED"
              THEN pc' = "UNSUPPORTED" /\ chunk' = 0
              ELSE /\ pc' = IF whole THEN "SECTIONS" ELSE "PAGES"
                   /\ chunk' = IF whole THEN left - (left % P) ELSE PageChunk
  /\ UNCHANGED <<ttb, bootVars, request, at, left, status, watched, tlb, calls>>

\* The invalidation of the translations of an address, whatever else they cover.
TlbWithout(a) ==
  {t \in tlb : ~(a.sec = watched.sec /\ (t.grain = "section" \/ a.page = watched.page))}

\* UpdatePageEntries: an entry that is no table is converted to one first.
ConvertSectionToPages ==
  /\ pc = "PAGES" /\ chunk > 0 /\ ttb[at.sec].kind # "table"
  /\ \/ /\ ttb' = [ttb EXCEPT ![at.sec] = Table(AsPages(at.sec))]
        /\ FlushTlbs' = TRUE
        /\ UNCHANGED pc
     \/ /\ pc' = "OUT_OF_RESOURCES"
        /\ UNCHANGED <<ttb, FlushTlbs>>
  /\ UNCHANGED <<bootVars, request, at, left, chunk, status, watched, tlb, calls>>

\* The base address of an entry is kept; an entry that is all zeroes has base 0.
NewPage(entry) ==
  IF entry.kind = "fault" THEN Page(0, 0, Updated(request, ZeroAttr))
                          ELSE [entry EXCEPT !.attr = Updated(request, @)]

UpdatePageEntry ==
  /\ pc \in {"PAGES", "SECTIONS"} /\ chunk > 0 /\ ttb[at.sec].kind = "table"
  /\ LET entry == ttb[at.sec].pages[at.page]
         new == NewPage(entry)
     IN  /\ ttb' = [ttb EXCEPT ![at.sec] = Table([ttb[at.sec].pages EXCEPT ![at.page] = new])]
         /\ tlb' = IF new # entry THEN TlbWithout(at) ELSE tlb
  /\ at' = IF at.page + 1 = P THEN [sec |-> at.sec + 1, page |-> 0]
                              ELSE [at EXCEPT !.page = @ + 1]
  /\ left' = left - 1 /\ chunk' = chunk - 1
  /\ UNCHANGED <<bootVars, pc, request, FlushTlbs, status, watched, calls>>

NewSectionNoBase(s) ==   \* mutant: a section that was not mapped gets no address
  IF ttb[s].kind = "fault" THEN Section(0, Updated(request, ZeroAttr))
                           ELSE [ttb[s] EXCEPT !.attr = Updated(request, @)]

NewSection(s) ==
  IF ttb[s].kind = "fault" THEN Section(s, Updated(request, ZeroAttr))
                           ELSE [ttb[s] EXCEPT !.attr = Updated(request, @)]

UpdateSectionEntry ==
  /\ pc = "SECTIONS" /\ chunk > 0 /\ ttb[at.sec].kind # "table"
  /\ ttb' = [ttb EXCEPT ![at.sec] = NewSection(at.sec)]
  /\ tlb' = IF NewSection(at.sec) # ttb[at.sec] THEN TlbWithout(at) ELSE tlb
  /\ at' = [at EXCEPT !.sec = @ + 1]
  /\ left' = left - P /\ chunk' = chunk - P
  /\ UNCHANGED <<bootVars, pc, request, FlushTlbs, status, watched, calls>>

FlushedNever == tlb   \* mutant: the invalidations by address are thought to be enough
Flushed == IF FlushTlbs THEN {} ELSE tlb

Return ==
  /\ \/ /\ pc \in {"PAGES", "SECTIONS"} /\ left = 0
        /\ status' = "SUCCESS"
     \/ /\ pc \in {"UNSUPPORTED", "OUT_OF_RESOURCES"}
        /\ status' = pc
  /\ tlb' = Flushed
  /\ pc' = "IDLE" /\ request' = NoRequest
  /\ UNCHANGED <<ttb, bootVars, at, left, chunk, FlushTlbs, watched, calls>>

Update ==
  \/ Call \/ CallOfNothing \/ NextChunk
  \/ ConvertSectionToPages \/ UpdatePageEntry \/ UpdateSectionEntry \/ Return

\* The processor may fetch a translation at any time, and goes on using it.
Fetch ==
  /\ pc \notin {"PEIM", "FILL"} /\ tlb = {} /\ Walk(watched) # {}
  /\ tlb' = Walk(watched)
  /\ UNCHANGED <<ttb, bootVars, pc, callVars, watched>>

Next == Boot \/ Update \/ Fetch

Spec == Init /\ [][Next]_mmuVars

-----------------------------------------------------------------------------
(***************************************************************************)
(* Properties.                                                             *)
(***************************************************************************)

\* Every address is translated to itself: the firmware runs identity mapped, and
\* hands physical addresses to DMA as they are.
Identity == \A a \in Addresses : \A t \in Walk(a) : t.to = a

\* Between calls the processor uses no translation other than the tables', also no
\* section's translation of a page that has an entry of its own by now.
TlbCurrent == pc = "IDLE" => tlb \subseteq Walk(watched)

\* MemoryPeim's map: after boot a page has the attributes of the last region that it
\* is in, and is not mapped if it is in none.
AttrsDeclared(a) ==
  LET rs == {i \in DOMAIN regions : In(a, regions[i])}
  IN  {regions[i].attr : i \in {j \in rs : \A k \in rs : k <= j}}
MappedAsDeclared ==
  pc = "IDLE" /\ calls = 0 =>
    \A a \in Addresses : {t.attr : t \in Walk(a)} = AttrsDeclared(a)

\* A call changes the pages of its region and no others, in order, and all of them
\* when it succeeds: splitting a section and failing midway included.
AccessOf(a) == IF Walk(a) = {} THEN ZeroAttr ELSE (CHOOSE t \in Walk(a) : TRUE).attr
Calling == pc \notin {"PEIM", "FILL", "IDLE"}
Map == INSTANCE MemoryMap WITH
  Pages <- 0..(NS * P - 1),
  Given <- Updated,
  mapped <- pc \notin {"PEIM", "FILL"},
  access <- [n \in 0..(NS * P - 1) |-> AccessOf(PageAt(n))],
  request <- IF Calling THEN request ELSE NoRequest,
  next <- IF Calling THEN Number(at) ELSE 0,
  last <- IF Calling THEN Number(at) + left - 1 ELSE -1,
  reply <- status
ImplementsMemoryMap == Map!Spec

=============================================================================
