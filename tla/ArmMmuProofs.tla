------------------------------ MODULE ArmMmuProofs ------------------------------
(***************************************************************************)
(* For any number of sections and pages, memory maps and requests: what    *)
(* the processor has cached when a call of ArmSetMemoryAttributes is over; *)
(* the map that the boot code makes; that a call changes the pages of its  *)
(* region and no others; that every address stays mapped to itself.        *)
(***************************************************************************)
EXTENDS ArmMmu, SeqLemmas

\* The tables are functions on the sections, and on the pages where there are any.
TablesTyped ==
  /\ ttb = [s \in Sections |-> ttb[s]]
  /\ \A s \in Sections : ttb[s].kind = "table" =>
       ttb[s].pages = [i \in PageIndexes |-> ttb[s].pages[i]]

WatchedTyped == watched.sec \in Sections /\ watched.page \in PageIndexes

\* Until an update splits a section, which alone is not followed by an invalidation, what is
\* cached is a translation of the tables; between calls it always is.
CachedUnlessSplit ==
  /\ FlushTlbs \in BOOLEAN
  /\ pc \in {"PEIM", "FILL"} => tlb = {} /\ ~FlushTlbs
  /\ pc = "IDLE" \/ ~FlushTlbs => tlb \subseteq Walk(watched)

TlbInv == TablesTyped /\ WatchedTyped /\ CachedUnlessSplit

\* The walk depends on nothing but the section's entry.
LEMMA SameWalk ==
  ASSUME watched' = watched, ttb'[watched.sec] = ttb[watched.sec]
  PROVE  Walk(watched)' = Walk(watched)
BY DEF Walk

\* Nothing is invalidated too much.
LEMMA TlbShrinks == \A a : TlbWithout(a) \subseteq tlb
BY DEF TlbWithout

\* The tables stay, as does what is cached.
LEMMA QuietStep ==
  ASSUME TlbInv, UNCHANGED <<ttb, watched, tlb>>,
         FlushTlbs' \in BOOLEAN,
         pc' \in {"PEIM", "FILL"} => pc \in {"PEIM", "FILL"} /\ FlushTlbs' = FlushTlbs,
         pc' = "IDLE" \/ ~FlushTlbs' => tlb \subseteq Walk(watched)
  PROVE  TlbInv'
<1>1. Walk(watched)' = Walk(watched)
  BY SameWalk
<1> QED BY <1>1 DEF TlbInv, TablesTyped, WatchedTyped, CachedUnlessSplit

LEMMA InitTlb == Init => TlbInv
<1> SUFFICES ASSUME Init PROVE TlbInv
  OBVIOUS
<1>1. TablesTyped
  BY DEF Init, TablesTyped, Fault
<1>2. watched \in Addresses
  BY MmuWatched DEF Init
<1> QED BY <1>1, <1>2 DEF Init, TlbInv, WatchedTyped, CachedUnlessSplit, Addresses

\* A step of the boot code, which runs with nothing cached.
LEMMA BootStep == TlbInv /\ Boot => TlbInv'
<1> SUFFICES ASSUME TlbInv, Boot PROVE TlbInv'
  OBVIOUS
<1>1. /\ pc \in {"PEIM", "FILL"} /\ pc' \in {"PEIM", "FILL", "IDLE"}
      /\ UNCHANGED <<FlushTlbs, watched, tlb>>
  BY DEF Boot, MemoryPeim, FillTranslationTable, FillSection, PopulateLevel2PageTable,
         EnableMmu, callVars
<1>2. CachedUnlessSplit' /\ WatchedTyped'
  BY <1>1 DEF TlbInv, CachedUnlessSplit, WatchedTyped
<1>3. TablesTyped'
  <2>1. CASE UNCHANGED ttb
    BY <2>1 DEF TlbInv, TablesTyped
  <2>2. CASE FillSection
    BY <2>2 DEF FillSection, TlbInv, TablesTyped, Section
  <2>3. CASE PopulateLevel2PageTable
    BY <2>3 DEF PopulateLevel2PageTable, TlbInv, TablesTyped, Table
  <2> QED BY <2>1, <2>2, <2>3 DEF Boot, MemoryPeim, FillTranslationTable, EnableMmu
<1> QED BY <1>2, <1>3 DEF TlbInv

\* A page's entry is written, and its translation invalidated when it changed.
LEMMA PageStep == TlbInv /\ UpdatePageEntry => TlbInv'
<1> SUFFICES ASSUME TlbInv, UpdatePageEntry PROVE TlbInv'
  OBVIOUS
<1> DEFINE entry == ttb[at.sec].pages[at.page]
           new == NewPage(entry)
           pages == [ttb[at.sec].pages EXCEPT ![at.page] = new]
<1>1. /\ pc \in {"PAGES", "SECTIONS"} /\ pc' = pc /\ ttb[at.sec].kind = "table"
      /\ ttb' = [ttb EXCEPT ![at.sec] = Table(pages)]
      /\ tlb' = IF new # entry THEN TlbWithout(at) ELSE tlb
      /\ UNCHANGED <<FlushTlbs, watched>>
  BY DEF UpdatePageEntry
<1> HIDE DEF entry, new
<1>2. TablesTyped'
  BY <1>1 DEF TlbInv, TablesTyped, Table
<1>3. ASSUME ~FlushTlbs PROVE tlb' \subseteq Walk(watched)'
  <2>1. tlb \subseteq Walk(watched) /\ tlb' \subseteq tlb
    BY <1>1, <1>3, TlbShrinks DEF TlbInv, CachedUnlessSplit
  <2>2. CASE at.sec # watched.sec
    BY <1>1, <2>1, <2>2, SameWalk DEF TlbInv, TablesTyped, WatchedTyped
  <2>3. CASE at.sec = watched.sec
    <3>1. /\ ttb[watched.sec].kind = "table" /\ ttb'[watched.sec].kind = "table"
          /\ ttb'[watched.sec].pages = pages
      BY <1>1, <2>3 DEF TlbInv, TablesTyped, WatchedTyped, Table
    <3>2. CASE pages[watched.page] = ttb[watched.sec].pages[watched.page]
      <4>1. Walk(watched)' = Walk(watched)
        BY <1>1, <3>1, <3>2 DEF Walk
      <4> QED BY <2>1, <4>1
    <3>3. CASE pages[watched.page] # ttb[watched.sec].pages[watched.page]
      <4>1. at.page = watched.page /\ new # entry
        BY <2>3, <3>1, <3>3 DEF TlbInv, TablesTyped, WatchedTyped, entry
      <4>2. tlb' = {}
        BY <1>1, <2>3, <4>1 DEF TlbWithout
      <4> QED BY <4>2
    <3> QED BY <3>2, <3>3
  <2> QED BY <2>2, <2>3
<1> QED BY <1>1, <1>2, <1>3 DEF TlbInv, WatchedTyped, CachedUnlessSplit

\* A section's entry is written, and its translation invalidated when it changed.
LEMMA SectionStep == TlbInv /\ UpdateSectionEntry => TlbInv'
<1> SUFFICES ASSUME TlbInv, UpdateSectionEntry PROVE TlbInv'
  OBVIOUS
<1> DEFINE new == NewSection(at.sec)
<1>1. /\ pc = "SECTIONS" /\ pc' = pc /\ ttb[at.sec].kind # "table"
      /\ ttb' = [ttb EXCEPT ![at.sec] = new]
      /\ tlb' = IF new # ttb[at.sec] THEN TlbWithout(at) ELSE tlb
      /\ UNCHANGED <<FlushTlbs, watched>>
  BY DEF UpdateSectionEntry
<1>2. new.kind # "table"
  BY <1>1 DEF NewSection, Section
<1> HIDE DEF new
<1>3. TablesTyped'
  BY <1>1, <1>2 DEF TlbInv, TablesTyped
<1>4. ASSUME ~FlushTlbs PROVE tlb' \subseteq Walk(watched)'
  <2>1. tlb \subseteq Walk(watched) /\ tlb' \subseteq tlb
    BY <1>1, <1>4, TlbShrinks DEF TlbInv, CachedUnlessSplit
  <2>2. CASE at.sec # watched.sec \/ new = ttb[at.sec]
    <3>1. ttb'[watched.sec] = ttb[watched.sec]
      BY <1>1, <2>2 DEF TlbInv, TablesTyped, WatchedTyped
    <3> QED BY <1>1, <2>1, <3>1, SameWalk
  <2>3. CASE at.sec = watched.sec /\ new # ttb[at.sec]
    <3>1. \A t \in tlb : t.grain = "section"
      BY <1>1, <2>1, <2>3 DEF Walk
    <3>2. tlb' = {}
      BY <1>1, <2>3, <3>1 DEF TlbWithout
    <3> QED BY <3>2
  <2> QED BY <2>2, <2>3
<1> QED BY <1>1, <1>3, <1>4 DEF TlbInv, WatchedTyped, CachedUnlessSplit

LEMMA TlbStep == TlbInv /\ [Next]_mmuVars => TlbInv'
<1> SUFFICES ASSUME TlbInv, [Next]_mmuVars PROVE TlbInv'
  OBVIOUS
<1>1. CASE UNCHANGED mmuVars
  BY <1>1, QuietStep DEF TlbInv, CachedUnlessSplit, mmuVars, callVars
<1>2. CASE Boot
  BY <1>2, BootStep
<1>3. CASE Call
  BY <1>3, QuietStep DEF Call, TlbInv, CachedUnlessSplit
<1>4. CASE CallOfNothing
  BY <1>4, QuietStep DEF CallOfNothing, TlbInv, CachedUnlessSplit
<1>5. CASE NextChunk
  BY <1>5, QuietStep DEF NextChunk, TlbInv, CachedUnlessSplit
<1>6. CASE ConvertSectionToPages
  <2>1. CASE ttb' = [ttb EXCEPT ![at.sec] = Table(AsPages(at.sec))] /\ FlushTlbs' = TRUE /\ pc' = pc
    <3>1. TablesTyped'
      BY <2>1 DEF TlbInv, TablesTyped, Table, AsPages
    <3>2. pc' = "PAGES" /\ watched' = watched
      BY <1>6, <2>1 DEF ConvertSectionToPages
    <3> QED BY <2>1, <3>1, <3>2 DEF TlbInv, WatchedTyped, CachedUnlessSplit
  <2>2. CASE pc' = "OUT_OF_RESOURCES" /\ UNCHANGED <<ttb, FlushTlbs>>
    BY <1>6, <2>2, QuietStep DEF ConvertSectionToPages, TlbInv, CachedUnlessSplit
  <2> QED BY <1>6, <2>1, <2>2 DEF ConvertSectionToPages
<1>7. CASE UpdatePageEntry
  BY <1>7, PageStep
<1>8. CASE UpdateSectionEntry
  BY <1>8, SectionStep
<1>9. CASE Return
  <2>1. /\ UNCHANGED <<ttb, watched, FlushTlbs>> /\ pc' = "IDLE"
        /\ tlb' = IF FlushTlbs THEN {} ELSE tlb
    BY <1>9 DEF Return, Flushed
  <2>2. Walk(watched)' = Walk(watched)
    BY <2>1, SameWalk
  <2> QED BY <2>1, <2>2 DEF TlbInv, TablesTyped, WatchedTyped, CachedUnlessSplit
<1>10. CASE Fetch
  <2>1. /\ UNCHANGED <<ttb, watched, FlushTlbs, pc>> /\ pc \notin {"PEIM", "FILL"}
        /\ tlb' = Walk(watched)
    BY <1>10 DEF Fetch, callVars
  <2>2. Walk(watched)' = Walk(watched)
    BY <2>1, SameWalk
  <2> QED BY <2>1, <2>2 DEF TlbInv, TablesTyped, WatchedTyped, CachedUnlessSplit
<1> QED BY <1>1, <1>2, <1>3, <1>4, <1>5, <1>6, <1>7, <1>8, <1>9, <1>10 DEF Next, Update

\* Between calls of ArmSetMemoryAttributes the processor translates no page otherwise than
\* the tables say, also after a call that split a section and failed half way
\* (UpdatePageEntries, UpdateSectionEntries).
THEOREM NothingStaleCached == Spec => []TlbCurrent
<1>1. TlbInv => TlbCurrent
  BY DEF TlbInv, CachedUnlessSplit, TlbCurrent
<1> QED BY <1>1, InitTlb, TlbStep, PTL DEF Spec

-----------------------------------------------------------------------------
(***************************************************************************)
(* The map: what the entries say, while the boot code fills them and while *)
(* calls change them.                                                      *)
(***************************************************************************)

\* What an entry, with the index of a page in it, says of the page.
Maps(d, i) == d.kind = "section" \/ (d.kind = "table" /\ d.pages[i].kind = "page")
EntryAttr(d, i) == IF d.kind = "section" THEN d.attr ELSE d.pages[i].attr
EntryAccess(d, i) == IF Maps(d, i) THEN EntryAttr(d, i) ELSE ZeroAttr

\* The entries of the tables, with attributes that a descriptor allows.
LeafTyped(d) == d = [kind |-> d.kind, to |-> d.to, attr |-> d.attr] /\ d.attr \in Accesses
EntryTyped(d) ==
  \/ d = Fault
  \/ d.kind = "section" /\ LeafTyped(d)
  \/ d.kind = "table" /\ \A i \in PageIndexes :
       d.pages[i] = Fault \/ (d.pages[i].kind = "page" /\ LeafTyped(d.pages[i]))
EntriesTyped == \A s \in Sections : EntryTyped(ttb[s])

\* The region of a call that is still to be changed, or that is to be mapped.
RestTyped ==
  /\ at.sec \in 0..NS /\ at.page \in PageIndexes /\ at = [sec |-> at.sec, page |-> at.page]
  /\ left \in Nat /\ Number(at) + left <= NS * P

\* A part of a call's region is whole sections only if it ends where a section does; it goes
\* on in the middle of one only if that is a table.
CallTyped ==
  /\ calls \in Nat
  /\ pc \in {"PEIM", "FILL", "IDLE", "LOOP", "PAGES", "SECTIONS", "UNSUPPORTED", "OUT_OF_RESOURCES"}
  /\ Calling =>
       /\ calls > 0 /\ request \in Requests /\ RestTyped
       /\ chunk \in Nat /\ chunk <= left
       /\ pc = "LOOP" => left > 0
       /\ pc \in {"PAGES", "SECTIONS"} => request.cache # "UNSUPPORTED"
       /\ pc = "SECTIONS" /\ chunk > 0 =>
            /\ (at.page + chunk) % P = 0
            /\ at.page # 0 => ttb[at.sec].kind = "table"

\* While the boot code maps a region, its end is that of the region or of the address space,
\* and what is left of it ends in the section that it is in if it is less than one.
Fit(s) ==
  /\ s \in Seq(Regions)
  /\ \A k \in 1..Len(s) : s[k].length >= P \/ s[k].from.page + s[k].length <= P
  /\ \A a, b \in Addresses :
       a.sec = b.sec /\ (\E k \in 1..Len(s) : In(a, s[k])) => \E k \in 1..Len(s) : In(b, s[k])
FillTyped ==
  pc = "FILL" =>
    /\ Fit(regions)
    /\ index \in 0..Len(regions) /\ RestTyped
    /\ left > 0 =>
         /\ index > 0 /\ request = regions[index].attr
         /\ left >= P \/ at.page + left <= P
         /\ Number(regions[index].from) <= Number(at)
         /\ Number(at) + left = Lesser(Number(regions[index].from) + regions[index].length, NS * P)

\* The regions that a page has been mapped by.
MappedBy(a) ==
  {k \in 1..index : In(a, regions[k]) /\ (k = index /\ left > 0 => Number(a) < Number(at))}
AttrsOf(ks) == {regions[k].attr : k \in {j \in ks : \A l \in ks : l <= j}}
EntryAttrs(d, i) == IF Maps(d, i) THEN {EntryAttr(d, i)} ELSE {}

MappedSoFar ==
  /\ pc = "PEIM" => regions \in MemoryMaps /\ index = 0 /\ left = 0 /\ ttb = [s \in Sections |-> Fault]
                   /\ RestTyped
  /\ pc = "FILL" =>
       \A a \in Addresses : EntryAttrs(ttb[a.sec], a.page) = AttrsOf(MappedBy(a))
  /\ pc = "IDLE" /\ calls = 0 =>
       \A a \in Addresses : EntryAttrs(ttb[a.sec], a.page) = AttrsDeclared(a)

\* The boot code fills every table that it makes: the board's regions leave no part of a
\* section out.  A page that is not filled would be mapped to address 0 by an update.
TablesFilled ==
  pc \notin {"PEIM", "FILL"} =>
    \A s \in Sections : ttb[s].kind = "table" =>
      \A i \in PageIndexes : ttb[s].pages[i].kind = "page"

\* A table has been made for some page, and after boot all its pages are mapped.
TablesBegun ==
  /\ pc = "FILL" => \A s \in Sections : ttb[s].kind = "table" =>
                     \E i \in PageIndexes : Maps(ttb[s], i)
  /\ TablesFilled

MapInv == EntriesTyped /\ CallTyped /\ FillTyped /\ MappedSoFar /\ TablesBegun

-----------------------------------------------------------------------------
\* A page has one number, and a number one page.
LEMMA Numbers ==
  ASSUME NEW s \in Nat, NEW i \in PageIndexes
  PROVE  LET n == Number([sec |-> s, page |-> i])
         IN  n \in Nat /\ n = s * P + i /\ PageAt(n) = [sec |-> s, page |-> i]
<1> DEFINE n == s * P + i
<1>1. Number([sec |-> s, page |-> i]) = n
  BY DEF Number
<1>2. P \in Nat \ {0} /\ i \in 0..(P - 1)
  BY MmuSizes DEF PageIndexes
<1>3. n \in Nat
  BY <1>2, Products
<1>4. n \div P \in Nat /\ n % P \in 0..(P - 1) /\ n = (n \div P) * P + (n % P)
  BY <1>2, <1>3, Digits
<1>5. n \div P = s /\ n % P = i
  <2> HIDE DEF n
  <2>1. n = s * P + i
    BY DEF n
  <2> QED BY <1>2, <1>4, <2>1, DigitsUnique
<1> QED BY <1>1, <1>3, <1>5 DEF PageAt

\* The pages are those with a number below NS * P.
LEMMA PagesNumbered ==
  /\ NS * P \in Nat
  /\ \A a \in Addresses : Number(a) \in 0..(NS * P - 1) /\ PageAt(Number(a)) = a
  /\ \A n \in 0..(NS * P - 1) : PageAt(n) \in Addresses /\ Number(PageAt(n)) = n
<1>1. NS \in Nat /\ P \in Nat \ {0} /\ NS * P \in Nat
  BY MmuSizes, Products
<1>2. ASSUME NEW a \in Addresses
      PROVE  Number(a) \in 0..(NS * P - 1) /\ PageAt(Number(a)) = a
  <2>1. a.sec \in Nat /\ a.sec < NS /\ a.page \in PageIndexes /\ a = [sec |-> a.sec, page |-> a.page]
    BY <1>1 DEF Addresses, Sections
  <2>2. Number(a) \in Nat /\ Number(a) = a.sec * P + a.page /\ PageAt(Number(a)) = a
    BY <2>1, Numbers
  <2>3. a.sec * P + P <= NS * P
    BY <1>1, <2>1, ProductsGrow
  <2>4. a.sec * P \in Nat /\ a.page \in 0..(P - 1)
    BY <1>1, <2>1, Products DEF PageIndexes
  <2> QED BY <1>1, <2>2, <2>3, <2>4
<1>3. ASSUME NEW n \in 0..(NS * P - 1)
      PROVE  PageAt(n) \in Addresses /\ Number(PageAt(n)) = n
  <2>1. n \in Nat /\ n < NS * P
    BY <1>1
  <2>2. n \div P \in Nat /\ n % P \in 0..(P - 1) /\ n = (n \div P) * P + (n % P)
    BY <1>1, <2>1, Digits
  <2>3. n \div P < NS
    <3>1. CASE n \div P = NS
      BY <1>1, <2>1, <2>2, <3>1
    <3>2. CASE NS < n \div P
      <4>1. NS * P + P <= (n \div P) * P
        BY <1>1, <2>2, <3>2, ProductsGrow
      <4>2. (n \div P) * P \in Nat
        BY <1>1, <2>2, Products
      <4> HIDE DEF PageAt
      <4> QED BY <1>1, <2>1, <2>2, <4>1, <4>2
    <3> QED BY <1>1, <2>2, <3>1, <3>2
  <2> QED BY <1>1, <2>2, <2>3 DEF PageAt, Addresses, Sections, PageIndexes, Number
<1> QED BY <1>1, <1>2, <1>3

\* What is left of a region starts at a page that exists.
LEMMA RestIsThere ==
  ASSUME RestTyped, left > 0
  PROVE  at \in Addresses
<1>1. at.sec \in 0..NS /\ at.page \in PageIndexes /\ at = [sec |-> at.sec, page |-> at.page]
      /\ left \in Nat /\ Number(at) + left <= NS * P
  BY DEF RestTyped
<1>2. Number(at) \in Nat /\ Number(at) = at.sec * P + at.page
  BY <1>1, MmuSizes, Numbers
<1>3. at.sec # NS
  BY <1>1, <1>2, MmuSizes, Products DEF PageIndexes
<1>4. at.sec \in Sections
  BY <1>1, <1>3, MmuSizes DEF Sections
<1> QED BY <1>1, <1>4 DEF Addresses

-----------------------------------------------------------------------------
\* The walk finds what the entry says.
LEMMA WalkIsEntry ==
  \A a : /\ {t.attr : t \in Walk(a)} = EntryAttrs(ttb[a.sec], a.page)
         /\ AccessOf(a) = EntryAccess(ttb[a.sec], a.page)
<1> TAKE a
<1> DEFINE d == ttb[a.sec]
<1>1. CASE d.kind = "section"
  <2> DEFINE t == [grain |-> "section", to |-> [a EXCEPT !.sec = d.to], attr |-> d.attr]
  <2>1. Walk(a) = {t} /\ t.attr = d.attr
    <3>1. Walk(a) = {t}
      BY <1>1, Zenon DEF Walk
    <3> QED BY <3>1
  <2> HIDE DEF t
  <2> QED BY <1>1, <2>1 DEF AccessOf, EntryAttrs, EntryAccess, Maps, EntryAttr
<1>2. CASE d.kind = "table" /\ d.pages[a.page].kind = "page"
  <2> DEFINE t == [grain |-> "page", to |-> d.pages[a.page].to, attr |-> d.pages[a.page].attr]
  <2>1. Walk(a) = {t} /\ t.attr = d.pages[a.page].attr
    <3>1. d.kind # "section"
      BY <1>2
    <3>2. Walk(a) = {t}
      BY <1>2, <3>1, Zenon DEF Walk
    <3> QED BY <3>2
  <2> HIDE DEF t
  <2> QED BY <1>2, <2>1 DEF AccessOf, EntryAttrs, EntryAccess, Maps, EntryAttr
<1>3. CASE ~Maps(d, a.page)
  <2>1. Walk(a) = {}
    BY <1>3 DEF Walk, Maps
  <2> QED BY <1>3, <2>1 DEF AccessOf, EntryAttrs, EntryAccess
<1> QED BY <1>1, <1>2, <1>3 DEF Maps

\* The pages of a section have its attributes.
LEMMA AsPagesKeep ==
  ASSUME NEW s, ttb[s].kind # "table", NEW i \in PageIndexes
  PROVE  EntryAccess(Table(AsPages(s)), i) = EntryAccess(ttb[s], i)
BY DEF EntryAccess, Maps, EntryAttr, Table, AsPages, Page

\* So do the pages that the boot code finds or makes.
LEMMA Level2PagesKeep ==
  ASSUME NEW s, NEW i \in PageIndexes
  PROVE  EntryAttrs(Table(Level2Pages(s)), i) = EntryAttrs(ttb[s], i)
BY DEF EntryAttrs, Maps, EntryAttr, Table, Level2Pages, AsPages, Page, Fault

\* No access is an access.
LEMMA ZeroAllowed == ZeroAttr \in Accesses
BY DEF ZeroAttr, Accesses, Caches

\* What an update makes of an access is one.
LEMMA UpdatedAllowed ==
  ASSUME NEW r \in Requests, r.cache # "UNSUPPORTED", NEW attr \in Accesses
  PROVE  Updated(r, attr) \in Accesses
BY MmuRequests DEF Updated, Accesses, Caches

\* The pages of an entry are typed if it is.
LEMMA PagesAllowed ==
  ASSUME NEW s, EntryTyped(ttb[s])
  PROVE  EntryTyped(Table(AsPages(s))) /\ EntryTyped(Table(Level2Pages(s)))
<1>1. \A attr \in Accesses : \A i : LeafTyped(Page(s, i, attr)) /\ Page(s, i, attr).kind = "page"
  BY DEF LeafTyped, Page
<1>2. ttb[s].kind = "section" => ttb[s].attr \in Accesses
  BY DEF EntryTyped, LeafTyped, Fault
<1>3. \A i \in PageIndexes : AsPages(s)[i].kind = "page" /\ LeafTyped(AsPages(s)[i])
  BY <1>1, <1>2, ZeroAllowed DEF AsPages
<1>4. \A i \in PageIndexes :
        Level2Pages(s)[i] = Fault \/ (Level2Pages(s)[i].kind = "page" /\ LeafTyped(Level2Pages(s)[i]))
  BY <1>3 DEF Level2Pages, EntryTyped, Fault, LeafTyped
<1> QED BY <1>3, <1>4 DEF EntryTyped, Table

\* One entry is written.
LEMMA EntryChanged ==
  ASSUME TablesTyped, NEW s, NEW d, ttb' = [ttb EXCEPT ![s] = d]
  PROVE  \A t \in Sections : ttb'[t] = IF t = s THEN d ELSE ttb[t]
BY DEF TablesTyped

\* A page that is updated is one with the new attributes.
LEMMA NewPageTyped ==
  ASSUME NEW d, d = Fault \/ (d.kind = "page" /\ LeafTyped(d)),
         request \in Requests, request.cache # "UNSUPPORTED"
  PROVE  /\ NewPage(d).kind = "page" /\ LeafTyped(NewPage(d))
         /\ NewPage(d).attr = Updated(request, IF d.kind = "page" THEN d.attr ELSE ZeroAttr)
<1>1. CASE d = Fault
  <2>1. NewPage(d) = Page(0, 0, Updated(request, ZeroAttr)) /\ d.kind # "page"
    BY <1>1 DEF NewPage, Fault
  <2> QED BY <1>1, <2>1, UpdatedAllowed, ZeroAllowed DEF Page, LeafTyped
<1>2. CASE d # Fault
  <2> DEFINE attr == Updated(request, d.attr)
  <2>1. NewPage(d) = [d EXCEPT !.attr = attr]
    BY <1>2 DEF NewPage
  <2>2. d.attr \in Accesses /\ d = [kind |-> d.kind, to |-> d.to, attr |-> d.attr] /\ d.kind = "page"
    BY <1>2 DEF LeafTyped
  <2>3. attr \in Accesses
    BY <2>2, UpdatedAllowed
  <2> HIDE DEF attr
  <2>4. NewPage(d) = [kind |-> d.kind, to |-> d.to, attr |-> attr]
    BY <2>1, <2>2
  <2> QED BY <2>2, <2>3, <2>4 DEF LeafTyped, attr
<1> QED BY <1>1, <1>2

\* A section that is updated is one with the new attributes.
LEMMA NewSectionTyped ==
  ASSUME NEW s, EntryTyped(ttb[s]), ttb[s].kind # "table",
         request \in Requests, request.cache # "UNSUPPORTED"
  PROVE  /\ NewSection(s).kind = "section" /\ LeafTyped(NewSection(s))
         /\ NewSection(s).attr = Updated(request, IF ttb[s].kind = "section" THEN ttb[s].attr ELSE ZeroAttr)
<1> DEFINE d == ttb[s]
<1>1. CASE d = Fault
  <2>1. NewSection(s) = Section(s, Updated(request, ZeroAttr)) /\ d.kind # "section"
    BY <1>1 DEF NewSection, Fault
  <2> QED BY <1>1, <2>1, UpdatedAllowed, ZeroAllowed DEF Section, LeafTyped
<1>2. CASE d # Fault
  <2> DEFINE attr == Updated(request, d.attr)
  <2>2. d.attr \in Accesses /\ d = [kind |-> d.kind, to |-> d.to, attr |-> d.attr] /\ d.kind = "section"
    BY <1>2 DEF LeafTyped, EntryTyped
  <2>1. NewSection(s) = [d EXCEPT !.attr = attr]
    BY <2>2 DEF NewSection
  <2>3. attr \in Accesses
    BY <2>2, UpdatedAllowed
  <2> HIDE DEF attr
  <2>4. NewSection(s) = [kind |-> d.kind, to |-> d.to, attr |-> attr]
    BY <2>1, <2>2
  <2> QED BY <2>2, <2>3, <2>4 DEF LeafTyped, attr
<1> QED BY <1>1, <1>2

-----------------------------------------------------------------------------
\* The loop of MemoryPeim leaves the regions that are to be mapped.
LEMMA MappedRegions ==
  ASSUME NEW map \in MemoryMaps, regions = map, MemoryPeim
  PROVE  Fit(regions')
<1> DEFINE n == Len(map)
           Kept == {k \in 1..n : map[k].HobOption # "HobOnlyNoCacheSetting"}
           F[k \in 0..n] == IF k = 0 THEN <<>>
                            ELSE IF map[k].HobOption # "HobOnlyNoCacheSetting"
                                   THEN Append(F[k - 1], map[k])
                            ELSE F[k - 1]
<1>1. /\ map \in Seq(Regions) /\ n \in Nat /\ DOMAIN map = 1..n
      /\ \A k \in 1..n : map[k] \in Regions
      /\ \A k \in 1..n : map[k].length >= P \/ map[k].from.page + map[k].length <= P
      /\ \A a, b \in Addresses :
           a.sec = b.sec /\ (\E k \in Kept : In(a, map[k])) => \E k \in Kept : In(b, map[k])
  <2>1. map \in Seq(Regions)
    BY MmuMaps
  <2>2. n \in Nat /\ DOMAIN map = 1..n /\ \A k \in 1..n : map[k] \in Regions
    BY <2>1, LenProperties, ElementOfSeq
  <2> QED BY <2>1, <2>2, MmuMaps
<1>2. regions' = F[n]
  BY DEF MemoryPeim
<1> HIDE DEF n
<1>3. Kept \in SUBSET (1..n) /\ \A k \in Kept : map[k] \in Regions
  BY <1>1
<1>4. \E f : f = [k \in 0..n |-> IF k = 0 THEN <<>>
                                 ELSE IF k \in Kept THEN Append(f[k - 1], map[k]) ELSE f[k - 1]]
  <2> HIDE DEF Kept
  <2>1. LoopInput(n, Regions, Kept, map)
    BY <1>1, <1>3 DEF LoopInput
  <2>2. \E f : IsLoop(f, n, Kept, map)
    BY <2>1, CollectExists
  <2> QED BY <2>2 DEF IsLoop
<1>5. \E f : f = [k \in 0..n |-> IF k = 0 THEN <<>>
                                 ELSE IF map[k].HobOption # "HobOnlyNoCacheSetting"
                                        THEN Append(f[k - 1], map[k])
                                 ELSE f[k - 1]]
  <2>1. PICK f : f = [k \in 0..n |-> IF k = 0 THEN <<>>
                                    ELSE IF k \in Kept THEN Append(f[k - 1], map[k]) ELSE f[k - 1]]
    BY <1>4
  <2>2. \A k \in 0..n : k # 0 => (k \in Kept <=> map[k].HobOption # "HobOnlyNoCacheSetting")
    BY <1>1
  <2> HIDE DEF Kept
  <2>3. \A k \in 0..n :
          (IF k = 0 THEN <<>> ELSE IF k \in Kept THEN Append(f[k - 1], map[k]) ELSE f[k - 1])
            = IF k = 0 THEN <<>>
              ELSE IF map[k].HobOption # "HobOnlyNoCacheSetting" THEN Append(f[k - 1], map[k])
              ELSE f[k - 1]
    BY <2>2, Zenon
  <2> QED BY <2>1, <2>3, Zenon
<1>6. F = [k \in 0..n |-> IF k = 0 THEN <<>>
                         ELSE IF map[k].HobOption # "HobOnlyNoCacheSetting"
                                THEN Append(F[k - 1], map[k])
                         ELSE F[k - 1]]
  BY <1>5
<1> HIDE DEF F
<1>7. F[0] = <<>>
  BY <1>1, <1>6
<1>8. \A k \in 1..n : F[k] = IF k \in Kept THEN Append(F[k - 1], map[k]) ELSE F[k - 1]
  <2> SUFFICES ASSUME NEW k \in 1..n
               PROVE  F[k] = IF k \in Kept THEN Append(F[k - 1], map[k]) ELSE F[k - 1]
    OBVIOUS
  <2>1. k \in 0..n /\ k # 0
    BY <1>1
  <2> QED BY <1>6, <2>1
<1>9. F[n] \in Seq(Regions) /\ \E to : CollectedAt(F[n], to, n, Kept, map)
  <2> HIDE DEF Kept
  <2>1. \A k \in 0..n : F[k] \in Seq(Regions) /\ Len(F[k]) <= k
                         /\ \E to : CollectedAt(F[k], to, k, Kept, map)
    BY <1>1, <1>3, <1>7, <1>8, CollectedInOrder
  <2> QED BY <1>1, <2>1
<1> DEFINE s == F[n]
<1>10. PICK to : CollectedAt(s, to, n, Kept, map)
  BY <1>9
<1>11. /\ s \in Seq(Regions) /\ Len(s) \in Nat
       /\ \A k \in 1..Len(s) : to[k] \in Kept /\ s[k] = map[to[k]]
       /\ \A j \in Kept : \E k \in 1..Len(s) : s[k] = map[j]
  <2>1. s \in Seq(Regions) /\ Len(s) \in Nat
    BY <1>9, LenProperties
  <2>2. \A k \in 1..Len(s) : to[k] \in Kept /\ s[k] = map[to[k]]
    BY <1>10 DEF CollectedAt
  <2>3. \A j \in Kept : j <= n
    BY <1>1
  <2>4. \A j \in Kept : \E k \in 1..Len(s) : to[k] = j
    BY <1>10, <2>3 DEF CollectedAt
  <2> QED BY <2>1, <2>2, <2>4
<1> HIDE DEF s
<1>12. \A k \in 1..Len(s) : s[k].length >= P \/ s[k].from.page + s[k].length <= P
  BY <1>1, <1>3, <1>11
<1>13. ASSUME NEW a \in Addresses, NEW b \in Addresses, a.sec = b.sec,
              NEW k \in 1..Len(s), In(a, s[k])
       PROVE  \E l \in 1..Len(s) : In(b, s[l])
  <2>1. \E j \in Kept : In(a, map[j])
    BY <1>11, <1>13
  <2>2. PICK j \in Kept : In(b, map[j])
    BY <1>1, <1>13, <2>1
  <2>3. PICK l \in 1..Len(s) : s[l] = map[j]
    BY <1>11
  <2> QED BY <2>2, <2>3
<1>14. Fit(s)
  BY <1>11, <1>12, <1>13 DEF Fit
<1> QED BY <1>2, <1>14 DEF s, Fit, In, Number

\* Pages that follow each other in a section are those with the numbers that do.
LEMMA RangeInSection ==
  ASSUME NEW b \in Addresses, NEW n \in Nat \ {0}, b.page + n <= P, NEW a \in Addresses
  PROVE  Number(a) \in Number(b)..(Number(b) + n - 1)
           <=> a.sec = b.sec /\ a.page \in b.page..(b.page + n - 1)
<1>1. /\ a.sec \in Nat /\ b.sec \in Nat /\ P \in Nat
      /\ a.page \in Nat /\ a.page < P /\ b.page \in Nat /\ b.page < P
  BY MmuSizes DEF Addresses, Sections, PageIndexes
<1>2. Number(a) = a.sec * P + a.page /\ Number(b) = b.sec * P + b.page
  BY DEF Number
<1>3. a.sec * P \in Nat /\ b.sec * P \in Nat
  BY <1>1, Products
<1>4. CASE a.sec = b.sec
  BY <1>1, <1>2, <1>3, <1>4
<1>5. CASE a.sec < b.sec
  <2>1. a.sec * P + P <= b.sec * P
    BY <1>1, <1>5, ProductsGrow
  <2> QED BY <1>1, <1>2, <1>3, <1>5, <2>1
<1>6. CASE b.sec < a.sec
  <2>1. b.sec * P + P <= a.sec * P
    BY <1>1, <1>6, ProductsGrow
  <2> QED BY <1>1, <1>2, <1>3, <1>6, <2>1
<1> QED BY <1>1, <1>4, <1>5, <1>6

\* Of the regions that a page is in, the one begun last decides.
LEMMA LastDecides ==
  ASSUME NEW ks, index \in Nat, ks \subseteq 1..index
  PROVE  AttrsOf(ks \cup {index}) = {regions[index].attr}
<1>1. {k \in ks \cup {index} : \A l \in ks \cup {index} : l <= k} = {index}
  <2>1. \A k \in ks : k \in Nat /\ k <= index
    OBVIOUS
  <2>2. \A k \in ks \cup {index} : index <= k => k = index
    BY <2>1
  <2>3. \A l \in ks \cup {index} : l <= index
    BY <2>1
  <2> QED BY <2>2, <2>3
<1> QED BY <1>1 DEF AttrsOf

\* Some more pages of a region are mapped.
LEMMA MorePages ==
  ASSUME FillTyped, pc = "FILL", left > 0, UNCHANGED <<index, regions>>,
         NEW n \in Nat \ {0}, n <= left,
         left' \in Nat, left' > 0 => Number(at)' = Number(at) + n /\ left' = left - n,
         left' = 0 => n = left,
         NEW a \in Addresses
  PROVE  /\ AttrsOf(MappedBy(a))' = IF Number(a) \in Number(at)..(Number(at) + n - 1)
                                      THEN {request} ELSE AttrsOf(MappedBy(a))
<1> DEFINE r == regions[index]
           f == Number(r.from)
           e == f + r.length
<1>1. /\ index \in Nat \ {0} /\ request = r.attr /\ r \in Regions
      /\ f <= Number(at) /\ Number(at) + left = Lesser(e, NS * P)
      /\ left \in Nat
  <2>1. regions \in Seq(Regions) /\ index \in 0..Len(regions)
    BY DEF FillTyped, Fit
  <2>2. Len(regions) \in Nat
    BY <2>1, LenProperties
  <2> QED BY <2>1, <2>2, ElementOfSeq DEF FillTyped, RestTyped
<1>2. /\ Number(a) \in 0..(NS * P - 1) /\ NS * P \in Nat
      /\ f \in Nat /\ r.length \in Nat /\ Number(at) \in Nat
  <2>1. r.from \in Addresses /\ r.length \in Nat /\ at \in Addresses
    BY <1>1, RestIsThere DEF Regions, FillTyped
  <2> QED BY <2>1, PagesNumbered
<1>3. In(a, r) <=> f <= Number(a) /\ Number(a) < Number(at) + left
  <2>1. In(a, r) <=> Number(a) \in f..(e - 1)
    <3> HIDE DEF r
    <3>1. In(a, r) <=> Number(a) \in f..(f + r.length - 1)
      BY Zenon DEF In
    <3>2. f + r.length - 1 = e - 1
      BY <1>2
    <3> QED BY <3>1, <3>2
  <2> HIDE DEF r, f, In
  <2> QED BY <1>1, <1>2, <2>1 DEF Lesser
<1> DEFINE x == Number(a)
           y == Number(at)
<1>4. index \in MappedBy(a) <=> f <= x /\ x < y
  <2>1. index \in MappedBy(a) <=> In(a, r) /\ x < y
    BY <1>1 DEF MappedBy
  <2> HIDE DEF r, f, x, y
  <2> QED BY <1>1, <1>2, <1>3, <2>1 DEF x, y
<1>5. index \in MappedBy(a)' <=> f <= x /\ x < y + n
  <2>1. index \in MappedBy(a)' <=> In(a, r) /\ (left' > 0 => x < y')
    BY <1>1 DEF MappedBy, In, Number
  <2>2. y' = Number(at)'
    OBVIOUS
  <2>3. left' > 0 => y' = y + n
    BY <2>2
  <2> DEFINE z == y'
  <2> HIDE DEF r, f, x, y, z
  <2>4. CASE left' > 0
    BY <1>1, <1>2, <1>3, <2>1, <2>3, <2>4 DEF x, y
  <2>5. CASE left' = 0
    BY <1>1, <1>2, <1>3, <2>1, <2>5 DEF x, y
  <2> QED BY <2>4, <2>5
<1>6. \A k \in 1..index : k # index => (k \in MappedBy(a)' <=> k \in MappedBy(a))
  BY DEF MappedBy, In, Number
<1>7. MappedBy(a) \subseteq 1..index /\ MappedBy(a)' \subseteq 1..index
  BY DEF MappedBy
<1>8. \A ks : AttrsOf(ks)' = AttrsOf(ks)
  BY DEF AttrsOf
<1>9. CASE x \in y..(y + n - 1)
  <2>1. MappedBy(a)' = MappedBy(a) \cup {index}
    <3>1. index \in MappedBy(a)'
      BY <1>1, <1>2, <1>5, <1>9
    <3> QED BY <1>1, <1>6, <1>7, <3>1
  <2> DEFINE ks == MappedBy(a)
             kt == MappedBy(a)'
  <2>2. AttrsOf(MappedBy(a))' = AttrsOf(kt)
    BY DEF AttrsOf
  <2> HIDE DEF ks, kt
  <2>3. AttrsOf(ks \cup {index}) = {regions[index].attr}
    BY <1>1, <1>7, LastDecides DEF ks
  <2> QED BY <1>1, <1>9, <2>1, <2>2, <2>3 DEF ks, kt
<1>10. CASE x \notin y..(y + n - 1)
  <2>1. MappedBy(a)' = MappedBy(a)
    <3>1. index \in MappedBy(a)' <=> index \in MappedBy(a)
      BY <1>1, <1>2, <1>4, <1>5, <1>10
    <3> QED BY <1>1, <1>6, <1>7, <3>1
  <2>2. AttrsOf(MappedBy(a))' = AttrsOf(MappedBy(a))
    BY <2>1 DEF AttrsOf
  <2> QED BY <1>10, <2>2
<1> QED BY <1>9, <1>10

-----------------------------------------------------------------------------
\* Before boot nothing is mapped.
LEMMA InitMap == Init => MapInv
<1> SUFFICES ASSUME Init PROVE MapInv
  OBVIOUS
<1>1. /\ ttb = [s \in Sections |-> Fault] /\ regions \in MemoryMaps /\ index = 0 /\ pc = "PEIM"
      /\ left = 0 /\ calls = 0 /\ at = [sec |-> 0, page |-> 0]
  BY DEF Init
<1>2. EntriesTyped
  BY <1>1 DEF EntriesTyped, EntryTyped
<1>3. CallTyped /\ FillTyped
  BY <1>1 DEF CallTyped, FillTyped, Calling
<1>4. RestTyped
  <2>1. at.sec = 0 /\ at.page = 0 /\ at = [sec |-> at.sec, page |-> at.page]
    BY <1>1
  <2>2. 0 \in 0..NS /\ 0 \in PageIndexes /\ NS * P \in Nat
    BY MmuSizes, Products DEF PageIndexes
  <2>3. Number(at) = 0
    BY <2>1, MmuSizes DEF Number
  <2> QED BY <1>1, <2>1, <2>2, <2>3 DEF RestTyped
<1> QED BY <1>1, <1>2, <1>3, <1>4 DEF MapInv, MappedSoFar, TablesBegun, TablesFilled

\* The regions to be mapped are chosen.
LEMMA PeimMaps ==
  ASSUME MapInv, MemoryPeim
  PROVE  MapInv'
<1>1. /\ pc = "PEIM" /\ pc' = "FILL" /\ UNCHANGED <<ttb, index, at, left, calls>>
      /\ regions \in MemoryMaps /\ index = 0 /\ left = 0 /\ ttb = [s \in Sections |-> Fault]
      /\ RestTyped /\ calls \in Nat
  BY DEF MemoryPeim, MapInv, MappedSoFar, CallTyped, callVars
<1>2. Fit(regions)'
  <2>1. Fit(regions')
    BY <1>1, MappedRegions
  <2> QED BY <2>1 DEF Fit, In, Number
<1>3. FillTyped'
  <2>1. 0 \in 0..Len(regions')
    BY <1>2, LenProperties DEF Fit
  <2> QED BY <1>1, <1>2, <2>1 DEF FillTyped, RestTyped, Number
<1>4. CallTyped' /\ EntriesTyped'
  BY <1>1 DEF MapInv, CallTyped, Calling, EntriesTyped, EntryTyped
<1>5. ASSUME NEW a \in Addresses
      PROVE  (EntryAttrs(ttb[a.sec], a.page) = AttrsOf(MappedBy(a)))'
  <2>1. MappedBy(a)' = {}
    BY <1>1 DEF MappedBy
  <2>2. AttrsOf(MappedBy(a))' = {}
    BY <2>1 DEF AttrsOf
  <2>3. ttb'[a.sec] = Fault
    BY <1>1 DEF Addresses
  <2> QED BY <2>2, <2>3 DEF EntryAttrs, Maps, Fault
<1>6. MappedSoFar'
  BY <1>1, <1>5 DEF MappedSoFar
<1>7. TablesBegun'
  BY <1>1 DEF TablesBegun, TablesFilled, Fault
<1> QED BY <1>3, <1>4, <1>6, <1>7 DEF MapInv

\* For two numbers.
LEMMA AtLeastOrMost == ASSUME NEW m \in Nat, NEW n \in Nat PROVE m >= n \/ 0 + m <= n
OBVIOUS

\* A region's mapping begins: none of its pages is mapped by it yet, and the one before is done.
LEMMA FillBegins ==
  ASSUME MapInv, FillTranslationTable
  PROVE  MapInv'
<1> DEFINE r == regions[index']
<1>1. /\ pc = "FILL" /\ pc' = pc /\ left = 0 /\ index < Len(regions) /\ index' = index + 1
      /\ request' = r.attr /\ at' = r.from
      /\ left' = Lesser(r.length, (NS - at'.sec) * P - at'.page)
      /\ UNCHANGED <<ttb, regions, calls>>
  BY DEF FillTranslationTable
<1>2. Fit(regions) /\ index \in 0..Len(regions) /\ Len(regions) \in Nat
  BY <1>1, LenProperties DEF MapInv, FillTyped, Fit
<1>3. r \in Regions /\ index' \in 1..Len(regions)
      /\ (r.length >= P \/ r.from.page + r.length <= P)
  BY <1>1, <1>2, ElementOfSeq DEF Fit
<1>4. /\ r.from \in Addresses /\ r.length \in Nat \ {0}
      /\ r.from.sec \in 0..(NS - 1) /\ r.from.page \in PageIndexes
      /\ r.from = [sec |-> r.from.sec, page |-> r.from.page]
  BY <1>3 DEF Regions, Addresses, Sections
<1> DEFINE room == (NS - at'.sec) * P - at'.page
           f == Number(r.from)
<1>5. /\ f \in 0..(NS * P - 1) /\ NS * P \in Nat /\ P \in Nat \ {0} /\ NS \in Nat
      /\ room = NS * P - f
  <2>1. f \in 0..(NS * P - 1) /\ NS * P \in Nat
    BY <1>4, PagesNumbered
  <2>2. f = at'.sec * P + at'.page
    BY <1>1 DEF Number
  <2>3. /\ at'.sec \in 0..(NS - 1) /\ at'.page \in PageIndexes
        /\ NS \in Nat /\ P \in Nat \ {0}
    BY <1>1, <1>4, MmuSizes
  <2> DEFINE s == at'.sec
             i == at'.page
  <2>4. (NS - s) * P = NS * P - s * P
    <3> HIDE DEF s
    <3> QED BY <2>3 DEF s
  <2> HIDE DEF f
  <2>5. room = NS * P - s * P - i
    BY <2>4
  <2>6. s * P \in Nat /\ i \in Nat
    BY <2>3, Products DEF PageIndexes
  <2> HIDE DEF room, s, i
  <2>7. f = s * P + i
    BY <2>2 DEF s, i
  <2> QED BY <2>1, <2>3, <2>5, <2>6, <2>7
<1> DEFINE l == r.length
<1>6. left' = Lesser(l, room)
  BY <1>1
<1>7. Number(at)' = f
  BY <1>1 DEF Number
<1> HIDE DEF room, f, l
<1>8. /\ left' \in Nat \ {0} /\ f + left' = Lesser(f + l, NS * P) /\ f + left' <= NS * P
  BY <1>4, <1>5, <1>6 DEF Lesser, l
<1>9. left' >= P \/ at'.page + left' <= P
  <2>1. left' <= l
    BY <1>4, <1>5, <1>6 DEF Lesser, l
  <2>2. CASE l >= P /\ room < P
    <3>1. left' = room /\ room + f = NS * P
      BY <1>5, <1>6, <2>2, <1>4 DEF Lesser, l
    <3>2. at' \in Addresses /\ at'.page \in PageIndexes
      BY <1>1, <1>4
    <3>3. at'.sec * P + at'.page = f /\ at'.sec \in 0..(NS - 1)
      BY <1>1, <1>4 DEF Number, f
    <3>4. at'.sec + 1 = NS
      <4>1. CASE at'.sec + 1 < NS
        <5>1. (at'.sec + 1) * P + P <= NS * P
          BY <1>5, <3>3, <4>1, ProductsGrow
        <5>2. (at'.sec + 1) * P = at'.sec * P + P /\ at'.sec * P \in Nat
          BY <1>5, <3>3, Products
        <5>3. at'.page \in Nat /\ at'.page < P
          BY <1>5, <3>2 DEF PageIndexes
        <5> QED BY <1>5, <2>2, <3>1, <3>3, <5>1, <5>2, <5>3
      <4> QED BY <1>5, <3>3, <4>1
    <3>5. NS * P = at'.sec * P + P /\ at'.sec * P \in Nat
      BY <1>5, <3>3, <3>4, Products
    <3> QED BY <1>5, <3>1, <3>2, <3>3, <3>5 DEF PageIndexes
  <2>3. CASE l >= P /\ ~(room < P)
    BY <1>5, <1>6, <2>3, <1>4 DEF Lesser, l
  <2>4. CASE ~(l >= P)
    <3>1. at'.page + l <= P /\ at'.page \in Nat
      BY <1>1, <1>3, <1>4, <1>5, <2>4 DEF l, PageIndexes
    <3> QED BY <1>4, <1>5, <1>8, <2>1, <3>1 DEF l
  <2> QED BY <2>2, <2>3, <2>4
<1>10. RestTyped'
  <2>1. Number(at)' + left' <= NS * P /\ left' \in Nat
    BY <1>7, <1>8
  <2>2. at'.sec \in 0..NS /\ at'.page \in PageIndexes /\ at' = [sec |-> at'.sec, page |-> at'.page]
    BY <1>1, <1>4, <1>5
  <2> QED BY <2>1, <2>2 DEF RestTyped
<1>11. FillTyped'
  <2>1. Number(regions[index].from)' = f /\ regions[index]'.length = l
    BY <1>1 DEF Number, f, l
  <2>2. Fit(regions)'
    BY <1>1, <1>2 DEF Fit, In, Number
  <2> HIDE DEF r
  <2>3. request' = regions[index]'.attr
    BY <1>1 DEF r
  <2>4. f <= f
    BY <1>5
  <2> QED BY <1>1, <1>2, <1>7, <1>8, <1>9, <1>10, <2>1, <2>2, <2>3, <2>4, <1>3 DEF FillTyped
<1>12. ASSUME NEW a \in Addresses
       PROVE  AttrsOf(MappedBy(a))' = AttrsOf(MappedBy(a))
  <2>1. Number(a) \in Nat
    BY PagesNumbered
  <2>2. index' \notin MappedBy(a)'
    <3> SUFFICES ASSUME In(a, r), Number(a) < Number(at)' PROVE FALSE
      BY <1>1, <1>8 DEF MappedBy, In, Number
    <3>1. Number(a) >= f
      <4> HIDE DEF r
      <4>1. Number(a) \in f..(f + r.length - 1)
        BY DEF In, f
      <4> QED BY <2>1, <1>5, <4>1
    <3> QED BY <1>5, <1>7, <2>1, <3>1
  <2>3. \A k \in 1..index : k \in MappedBy(a)' <=> k \in MappedBy(a)
    BY <1>1, <1>2 DEF MappedBy, In, Number
  <2>4. MappedBy(a)' = MappedBy(a)
    <3>1. MappedBy(a) \subseteq 1..index /\ MappedBy(a)' \subseteq 1..index + 1
      BY <1>1 DEF MappedBy
    <3>2. \A k \in 1..index + 1 : k = index' \/ k \in 1..index
      BY <1>1, <1>2
    <3> DEFINE ks == MappedBy(a)
               kt == MappedBy(a)'
    <3> HIDE DEF ks, kt
    <3> QED BY <2>2, <2>3, <3>1, <3>2 DEF ks, kt
  <2> QED BY <1>1, <2>4 DEF AttrsOf
<1>13. MappedSoFar'
  BY <1>1, <1>12 DEF MapInv, MappedSoFar
<1>14. CallTyped' /\ EntriesTyped' /\ TablesBegun'
  BY <1>1 DEF MapInv, CallTyped, Calling, EntriesTyped, TablesBegun, TablesFilled
<1> QED BY <1>11, <1>13, <1>14 DEF MapInv

\* A whole section is mapped.
LEMMA SectionFilled ==
  ASSUME TablesTyped, MapInv, FillSection
  PROVE  MapInv'
<1> DEFINE d == Section(at.sec, request)
<1>1. /\ pc = "FILL" /\ pc' = pc /\ at.page = 0 /\ left >= P
      /\ ttb' = [ttb EXCEPT ![at.sec] = d]
      /\ at' = [at EXCEPT !.sec = @ + 1] /\ left' = left - P
      /\ UNCHANGED <<regions, index, request, calls>>
  BY DEF FillSection, bootVars
<1>2. /\ RestTyped /\ left \in Nat \ {0} /\ P \in Nat \ {0} /\ Fit(regions)
      /\ index \in 1..Len(regions) /\ request = regions[index].attr
  <2>1. Len(regions) \in Nat
    BY <1>1, LenProperties DEF MapInv, FillTyped, Fit
  <2> QED BY <1>1, <2>1, MmuSizes DEF MapInv, FillTyped, RestTyped
<1>3. /\ at \in Addresses /\ at = [sec |-> at.sec, page |-> at.page]
      /\ at.sec \in Nat /\ at.sec < NS /\ NS \in Nat
  BY <1>2, RestIsThere, MmuSizes DEF RestTyped, Addresses, Sections
<1>4. at' = [sec |-> at.sec + 1, page |-> 0]
  BY <1>1, <1>3
<1>5. Number(at)' = Number(at) + P /\ Number(at) \in Nat
  <2>1. (at.sec + 1) * P = at.sec * P + P /\ at.sec * P \in Nat
    BY <1>2, <1>3, Products
  <2>2. Number(at) = at.sec * P + 0 /\ Number(at)' = (at.sec + 1) * P + 0
    BY <1>1, <1>4 DEF Number
  <2> QED BY <1>2, <2>1, <2>2
<1>6. RestTyped' /\ left' \in Nat
  <2>1. at'.sec \in 0..NS /\ at'.page \in PageIndexes
    BY <1>2, <1>3, <1>4 DEF PageIndexes
  <2>2. left' \in Nat /\ Number(at)' + left' = Number(at) + left
    BY <1>1, <1>2, <1>5
  <2> QED BY <1>2, <1>4, <2>1, <2>2 DEF RestTyped
<1>7. FillTyped'
  <2>1. /\ Number(regions[index].from) <= Number(at)
        /\ Number(at) + left = Lesser(Number(regions[index].from) + regions[index].length, NS * P)
    BY <1>1, <1>2 DEF MapInv, FillTyped
  <2>2. /\ Number(regions[index].from)' = Number(regions[index].from)
        /\ regions[index]' = regions[index] /\ request' = request /\ index' = index
    BY <1>1 DEF Number
  <2>3. regions[index] \in Regions /\ Number(regions[index].from) \in Nat
    <3>1. regions[index] \in Regions
      BY <1>2, ElementOfSeq DEF Fit
    <3> QED BY <3>1, PagesNumbered DEF Regions
  <2> DEFINE f == Number(regions[index].from)
             e == Lesser(f + regions[index].length, NS * P)
  <2>4. Number(regions[index].from)' <= Number(at)'
    <3> HIDE DEF f
    <3>1. f <= Number(at)' BY <1>2, <1>5, <2>1, <2>3 DEF f
    <3> QED BY <2>2, <3>1 DEF f
  <2>5. Number(at)' + left' = Number(at) + left
    BY <1>1, <1>2, <1>5
  <2>6. (Number(at) + left = e)'
    BY <2>1, <2>2, <2>5 DEF Lesser
  <2>7. left' >= P \/ at'.page + left' <= P
    <3>1. at'.page = 0
      BY <1>4
    <3>2. left' >= P \/ 0 + left' <= P
      BY <1>2, <1>6, AtLeastOrMost
    <3> QED BY <3>1, <3>2
  <2>8. Fit(regions)'
    BY <1>1, <1>2 DEF Fit, In, Number
  <2>9. index' \in 0..Len(regions') /\ index' > 0
    BY <1>1, <1>2
  <2> QED BY <1>2, <1>6, <2>2, <2>4, <2>6, <2>7, <2>8, <2>9 DEF FillTyped
<1>8. request \in Accesses
  <2>1. regions[index] \in Regions
    BY <1>2, ElementOfSeq DEF Fit
  <2> QED BY <1>2, <2>1 DEF Regions
<1>9. \A t \in Sections : ttb'[t] = IF t = at.sec THEN d ELSE ttb[t]
  BY <1>1, EntryChanged
<1>10. EntriesTyped'
  <2>1. EntryTyped(d)
    BY <1>8 DEF EntryTyped, LeafTyped, Section
  <2> QED BY <1>9, <2>1 DEF MapInv, EntriesTyped
<1>11. ASSUME NEW a \in Addresses
       PROVE  EntryAttrs(ttb'[a.sec], a.page) = AttrsOf(MappedBy(a))'
  <2>1. AttrsOf(MappedBy(a))' = IF Number(a) \in Number(at)..(Number(at) + P - 1)
                                  THEN {request} ELSE AttrsOf(MappedBy(a))
    <3>1. P <= left /\ left' > 0 => Number(at)' = Number(at) + P /\ left' = left - P
      BY <1>1, <1>2, <1>5
    <3>2. left' = 0 => P = left
      BY <1>1, <1>2
    <3>3. left > 0 /\ FillTyped
      BY <1>2 DEF MapInv
    <3> QED BY <1>1, <1>2, <1>6, <3>1, <3>2, <3>3, MorePages
  <2>2. Number(a) \in Number(at)..(Number(at) + P - 1) <=> a.sec = at.sec
    <3>1. at.page + P <= P
      BY <1>1, <1>2
    <3>2. a.page \in at.page..(at.page + P - 1)
      BY <1>1, <1>2 DEF Addresses, PageIndexes
    <3> QED BY <1>2, <1>3, <3>1, <3>2, RangeInSection
  <2>3. EntryAttrs(d, a.page) = {request}
    BY DEF EntryAttrs, Maps, EntryAttr, Section
  <2>4. EntryAttrs(ttb[a.sec], a.page) = AttrsOf(MappedBy(a))
    BY <1>1 DEF MapInv, MappedSoFar
  <2>5. a.sec \in Sections
    BY DEF Addresses
  <2> HIDE DEF d
  <2> QED BY <1>9, <2>1, <2>2, <2>3, <2>4, <2>5
<1>12. MappedSoFar'
  BY <1>1, <1>11 DEF MappedSoFar
<1>13. CallTyped'
  BY <1>1 DEF MapInv, CallTyped, Calling
<1>14. TablesBegun'
  <2>1. d.kind # "table"
    BY DEF Section
  <2> HIDE DEF d
  <2> QED BY <1>1, <1>9, <2>1 DEF MapInv, TablesBegun, TablesFilled
<1> QED BY <1>7, <1>10, <1>12, <1>13, <1>14 DEF MapInv

\* Some pages of a section are mapped, and its others stay as they were.
LEMMA PagesFilled ==
  ASSUME TablesTyped, MapInv, PopulateLevel2PageTable
  PROVE  MapInv'
<1> DEFINE n == Lesser(left, P - at.page)
           Filled(m) == [i \in PageIndexes |-> IF i \in at.page..(at.page + m - 1)
                                               THEN Page(at.sec, i, request)
                                               ELSE Level2Pages(at.sec)[i]]
           d == Table(Filled(n))
<1>1. /\ pc = "FILL" /\ pc' = pc /\ left > 0 /\ ~(at.page = 0 /\ left >= P)
      /\ ttb' = [ttb EXCEPT ![at.sec] = d]
      /\ at' = [sec |-> at.sec + 1, page |-> 0]
      /\ left' = IF left < P THEN 0 ELSE left - n
      /\ UNCHANGED <<regions, index, request, calls>>
  BY DEF PopulateLevel2PageTable, bootVars
<1>2. /\ RestTyped /\ left \in Nat \ {0} /\ P \in Nat \ {0} /\ Fit(regions)
      /\ index \in 1..Len(regions) /\ request = regions[index].attr
      /\ left >= P \/ at.page + left <= P
  <2>1. Len(regions) \in Nat
    BY <1>1, LenProperties DEF MapInv, FillTyped, Fit
  <2> QED BY <1>1, <2>1, MmuSizes DEF MapInv, FillTyped, RestTyped
<1>3. /\ at \in Addresses /\ at = [sec |-> at.sec, page |-> at.page]
      /\ at.sec \in Nat /\ at.sec < NS /\ NS \in Nat
      /\ at.page \in Nat /\ at.page < P /\ at.sec \in Sections
  BY <1>2, RestIsThere, MmuSizes DEF RestTyped, Addresses, Sections, PageIndexes
<1>4. /\ n \in Nat \ {0} /\ n <= left /\ at.page + n <= P
      /\ left < P => n = left
      /\ left >= P => n = P - at.page /\ left - n \in Nat \ {0}
  BY <1>1, <1>2, <1>3 DEF Lesser
<1> HIDE DEF n
<1>5. left' \in Nat /\ (left' > 0 => left >= P /\ left' = left - n) /\ (left' = 0 => n = left)
  BY <1>1, <1>2, <1>4
<1>6. left >= P => Number(at)' = Number(at) + n
  <2>1. (at.sec + 1) * P = at.sec * P + P /\ at.sec * P \in Nat
    BY <1>2, <1>3, Products
  <2>2. Number(at) = at.sec * P + at.page /\ Number(at)' = (at.sec + 1) * P + 0
    BY <1>1 DEF Number
  <2> QED BY <1>2, <1>3, <1>4, <2>1, <2>2
<1>7. Number(at) \in Nat /\ Number(at)' \in Nat /\ Number(at)' <= NS * P /\ NS * P \in Nat
  <2>1. Number(at)' = (at.sec + 1) * P + 0
    BY <1>1 DEF Number
  <2>2. /\ (at.sec + 1) * P = at.sec * P + P /\ at.sec * P + P <= NS * P
        /\ at.sec * P \in Nat
    BY <1>2, <1>3, Products, ProductsGrow
  <2> QED BY <1>2, <1>3, <2>1, <2>2, PagesNumbered
<1>8. RestTyped'
  <2>1. at'.sec \in 0..NS /\ at'.page \in PageIndexes /\ at' = [sec |-> at'.sec, page |-> at'.page]
    BY <1>1, <1>2, <1>3 DEF PageIndexes
  <2>2. Number(at)' + left' <= NS * P
    <3>1. CASE left' > 0
      <4>1. Number(at) + left <= NS * P
        BY <1>2 DEF RestTyped
      <4> QED BY <1>2, <1>4, <1>5, <1>6, <1>7, <3>1, <4>1
    <3>2. CASE left' = 0
      BY <1>7, <3>2
    <3> QED BY <1>5, <3>1, <3>2
  <2> QED BY <1>5, <2>1, <2>2 DEF RestTyped
<1>9. FillTyped'
  <2>1. /\ Number(regions[index].from) <= Number(at)
        /\ Number(at) + left = Lesser(Number(regions[index].from) + regions[index].length, NS * P)
    BY <1>1, <1>2 DEF MapInv, FillTyped
  <2>2. /\ Number(regions[index].from)' = Number(regions[index].from)
        /\ regions[index]' = regions[index] /\ request' = request /\ index' = index
    BY <1>1 DEF Number
  <2>3. regions[index] \in Regions /\ Number(regions[index].from) \in Nat
    <3>1. regions[index] \in Regions
      BY <1>2, ElementOfSeq DEF Fit
    <3> QED BY <3>1, PagesNumbered DEF Regions
  <2> DEFINE f == Number(regions[index].from)
             e == Lesser(f + regions[index].length, NS * P)
  <2>4. ASSUME left' > 0 PROVE Number(regions[index].from)' <= Number(at)'
    <3> HIDE DEF f
    <3>1. f <= Number(at)'
      BY <1>4, <1>5, <1>6, <1>7, <2>1, <2>3, <2>4 DEF f
    <3> QED BY <2>2, <3>1 DEF f
  <2>5. ASSUME left' > 0 PROVE Number(at)' + left' = Number(at) + left
    BY <1>2, <1>4, <1>5, <1>6, <1>7, <2>5
  <2>6. left' > 0 => (Number(at) + left = e)'
    BY <2>1, <2>2, <2>5 DEF Lesser
  <2>7. left' >= P \/ at'.page + left' <= P
    <3>1. at'.page = 0
      BY <1>1
    <3>2. left' >= P \/ 0 + left' <= P
      BY <1>2, <1>5, AtLeastOrMost
    <3> QED BY <3>1, <3>2
  <2>8. Fit(regions)'
    BY <1>1, <1>2 DEF Fit, In, Number
  <2>9. index' \in 0..Len(regions') /\ index' > 0
    BY <1>1, <1>2
  <2> QED BY <1>2, <1>8, <2>2, <2>4, <2>6, <2>7, <2>8, <2>9 DEF FillTyped
<1>10. request \in Accesses
  <2>1. regions[index] \in Regions
    BY <1>2, ElementOfSeq DEF Fit
  <2> QED BY <1>2, <2>1 DEF Regions
<1> DEFINE old == Table(Level2Pages(at.sec))
<1>11. /\ d.kind = "table" /\ old.kind = "table"
       /\ \A i \in PageIndexes :
            d.pages[i] = IF i \in at.page..(at.page + n - 1) THEN Page(at.sec, i, request)
                                                            ELSE old.pages[i]
  BY DEF Table
<1> HIDE DEF d, old
<1>12. \A t \in Sections : ttb'[t] = IF t = at.sec THEN d ELSE ttb[t]
  BY <1>1, EntryChanged
<1>13. \A i \in PageIndexes :
         EntryAttrs(d, i) = IF i \in at.page..(at.page + n - 1) THEN {request}
                                                              ELSE EntryAttrs(ttb[at.sec], i)
  <2>1. \A i \in PageIndexes : EntryAttrs(old, i) = EntryAttrs(ttb[at.sec], i)
    BY Level2PagesKeep DEF old
  <2>2. \A i : Page(at.sec, i, request).kind = "page" /\ Page(at.sec, i, request).attr = request
    BY DEF Page
  <2> QED BY <1>11, <2>1, <2>2 DEF EntryAttrs, Maps, EntryAttr
<1>14. EntriesTyped'
  <2>1. EntryTyped(old)
    BY <1>3, PagesAllowed DEF old, MapInv, EntriesTyped
  <2>2. \A i : Page(at.sec, i, request).kind = "page" /\ LeafTyped(Page(at.sec, i, request))
    BY <1>10 DEF Page, LeafTyped
  <2>3. \A i \in PageIndexes :
          old.pages[i] = Fault \/ (old.pages[i].kind = "page" /\ LeafTyped(old.pages[i]))
    BY <1>11, <2>1 DEF EntryTyped, Fault
  <2>4. EntryTyped(d)
    BY <1>11, <2>2, <2>3 DEF EntryTyped
  <2> QED BY <1>12, <2>4 DEF MapInv, EntriesTyped
<1>15. ASSUME NEW a \in Addresses
       PROVE  EntryAttrs(ttb'[a.sec], a.page) = AttrsOf(MappedBy(a))'
  <2>1. AttrsOf(MappedBy(a))' = IF Number(a) \in Number(at)..(Number(at) + n - 1)
                                  THEN {request} ELSE AttrsOf(MappedBy(a))
    <3>1. left > 0 /\ FillTyped
      BY <1>1 DEF MapInv
    <3>2. left' > 0 => Number(at)' = Number(at) + n /\ left' = left - n
      BY <1>5, <1>6
    <3> QED BY <1>1, <1>4, <1>5, <3>1, <3>2, MorePages
  <2>2. Number(a) \in Number(at)..(Number(at) + n - 1)
          <=> a.sec = at.sec /\ a.page \in at.page..(at.page + n - 1)
    BY <1>3, <1>4, RangeInSection
  <2>3. EntryAttrs(ttb[a.sec], a.page) = AttrsOf(MappedBy(a))
    BY <1>1 DEF MapInv, MappedSoFar
  <2>4. a.sec \in Sections /\ a.page \in PageIndexes
    BY DEF Addresses
  <2> QED BY <1>12, <1>13, <2>1, <2>2, <2>3, <2>4
<1>16. MappedSoFar'
  BY <1>1, <1>15 DEF MappedSoFar
<1>17. CallTyped'
  BY <1>1 DEF MapInv, CallTyped, Calling
<1>18. TablesBegun'
  <2>1. Maps(d, at.page)
    <3>1. at.page \in PageIndexes /\ at.page \in at.page..(at.page + n - 1)
      BY <1>2, <1>3, <1>4 DEF PageIndexes
    <3>2. d.pages[at.page] = Page(at.sec, at.page, request)
      BY <1>11, <3>1
    <3> QED BY <1>11, <3>2 DEF Maps, Page
  <2>2. at.page \in PageIndexes
    BY <1>2 DEF RestTyped
  <2> QED BY <1>1, <1>12, <2>1, <2>2 DEF MapInv, TablesBegun, TablesFilled
<1> QED BY <1>9, <1>14, <1>16, <1>17, <1>18 DEF MapInv

\* A set of numbers with a bound has a largest one.
LEMMA Largest ==
  ASSUME NEW n \in Nat, NEW S, S \subseteq 1..n, S # {}
  PROVE  \E j \in S : \A k \in S : k <= j
<1> DEFINE T == {m \in Nat : \A k \in S : k <= m}
           m == Min(T)
<1>1. n \in T
  OBVIOUS
<1>2. m \in T /\ \A t \in T : m <= t
  BY <1>1, MinOfNaturals
<1> HIDE DEF m
<1>3. m \in Nat /\ \A k \in S : k <= m
  BY <1>2
<1>4. CASE m \in S
  BY <1>3, <1>4
<1>5. CASE m \notin S
  <2>1. PICK k \in S : TRUE
    OBVIOUS
  <2>2. m - 1 \in Nat
    BY <1>3, <2>1
  <2>3. \A l \in S : l <= m - 1
    BY <1>3, <1>5
  <2>4. m - 1 \in T
    BY <2>2, <2>3
  <2> QED BY <1>2, <1>3, <2>4
<1> QED BY <1>4, <1>5

\* The boot code has mapped all regions.
LEMMA EnableMaps ==
  ASSUME MapInv, EnableMmu
  PROVE  MapInv'
<1>1. /\ pc = "FILL" /\ pc' = "IDLE" /\ left = 0 /\ index = Len(regions)
      /\ UNCHANGED <<ttb, regions, calls>>
  BY DEF EnableMmu, bootVars
<1>2. /\ Fit(regions) /\ Len(regions) \in Nat /\ DOMAIN regions = 1..Len(regions)
  BY <1>1, LenProperties DEF MapInv, FillTyped, Fit
<1>3. ASSUME NEW a \in Addresses
      PROVE  EntryAttrs(ttb[a.sec], a.page) = AttrsDeclared(a) /\ AttrsDeclared(a)' = AttrsDeclared(a)
  <2>1. MappedBy(a) = {k \in DOMAIN regions : In(a, regions[k])}
    BY <1>1, <1>2 DEF MappedBy
  <2>2. AttrsOf(MappedBy(a)) = AttrsDeclared(a)
    BY <2>1 DEF AttrsOf, AttrsDeclared
  <2>3. AttrsDeclared(a)' = AttrsDeclared(a)
    BY <1>1 DEF AttrsDeclared, In, Number
  <2> QED BY <1>1, <2>2, <2>3 DEF MapInv, MappedSoFar
<1>4. MappedSoFar'
  BY <1>1, <1>3 DEF MappedSoFar
<1>5. ASSUME NEW s \in Sections, ttb[s].kind = "table", NEW j \in PageIndexes
      PROVE  ttb[s].pages[j].kind = "page"
  <2>1. PICK i \in PageIndexes : Maps(ttb[s], i)
    BY <1>1, <1>5 DEF MapInv, TablesBegun
  <2> DEFINE a == [sec |-> s, page |-> i]
             b == [sec |-> s, page |-> j]
  <2>2. a \in Addresses /\ b \in Addresses /\ a.sec = b.sec
    BY DEF Addresses
  <2>3. EntryAttrs(ttb[s], i) # {}
    BY <2>1 DEF EntryAttrs
  <2>4. AttrsDeclared(a) # {}
    BY <1>3, <2>2, <2>3
  <2>5. \E k \in 1..Len(regions) : In(a, regions[k])
    BY <1>2, <2>4 DEF AttrsDeclared
  <2> HIDE DEF a
  <2> DEFINE S == {k \in DOMAIN regions : In(b, regions[k])}
  <2>6. S \subseteq 1..Len(regions) /\ S # {}
    <3> HIDE DEF b
    <3>1. \E k \in 1..Len(regions) : In(b, regions[k])
      BY <1>2, <2>2, <2>5 DEF Fit
    <3> QED BY <1>2, <3>1
  <2>7. AttrsDeclared(b) # {}
    <3>1. PICK k \in S : \A l \in S : l <= k
      BY <1>2, <2>6, Largest
    <3> QED BY <3>1 DEF AttrsDeclared
  <2>8. EntryAttrs(ttb[s], j) # {}
    <3>1. b.sec = s /\ b.page = j
      OBVIOUS
    <3> HIDE DEF b
    <3> QED BY <1>3, <2>2, <2>7, <3>1
  <2> QED BY <1>5, <2>8 DEF EntryAttrs, Maps
<1>6. TablesBegun'
  BY <1>1, <1>5 DEF TablesBegun, TablesFilled
<1>7. CallTyped' /\ EntriesTyped' /\ FillTyped'
  BY <1>1 DEF MapInv, CallTyped, Calling, EntriesTyped, FillTyped
<1> QED BY <1>4, <1>6, <1>7 DEF MapInv

\* The boot code maps what the regions declare.
LEMMA BootMaps ==
  ASSUME TablesTyped, MapInv, Boot
  PROVE  MapInv'
BY PeimMaps, FillBegins, SectionFilled, PagesFilled, EnableMaps DEF Boot

-----------------------------------------------------------------------------
\* After boot a step leaves the board's map behind.
LEMMA AfterBoot ==
  ASSUME MapInv, pc \notin {"PEIM", "FILL"}, pc' \notin {"PEIM", "FILL"},
         UNCHANGED ttb, CallTyped', pc' = "IDLE" => calls' > 0
  PROVE  MapInv'
<1>1. EntriesTyped' /\ TablesBegun'
  BY DEF MapInv, EntriesTyped, TablesBegun, TablesFilled
<1>2. FillTyped' /\ MappedSoFar'
  <2>1. ~(pc' = "IDLE" /\ calls' = 0)
    BY DEF CallTyped
  <2> QED BY <2>1 DEF FillTyped, MappedSoFar
<1> QED BY <1>1, <1>2 DEF MapInv

\* The region of a call is one of pages.
LEMMA CallBegins ==
  ASSUME MapInv, Call
  PROVE  MapInv' /\ RestTyped' /\ left' > 0 /\ at' \in Addresses
<1>1. PICK a \in Addresses, n \in 1..(NS * P) :
        at' = a /\ left' = Lesser(n, (NS - a.sec) * P - a.page)
  BY DEF Call
<1>2. /\ pc = "IDLE" /\ pc' = "LOOP" /\ chunk' = 0 /\ calls' = calls + 1 /\ request' \in Requests
      /\ UNCHANGED ttb
  BY DEF Call
<1>3. /\ a = [sec |-> a.sec, page |-> a.page] /\ a.page \in PageIndexes /\ a.sec \in 0..(NS - 1)
      /\ NS \in Nat /\ P \in Nat \ {0} /\ NS * P \in Nat
      /\ Number(a) = a.sec * P + a.page /\ Number(a) \in 0..(NS * P - 1)
  BY MmuSizes, PagesNumbered DEF Addresses, Sections, Number
<1> DEFINE s == a.sec
           i == a.page
<1>4. (NS - s) * P = NS * P - s * P
  <2> HIDE DEF s
  <2> QED BY <1>3 DEF s
<1>5. s * P \in Nat /\ i \in Nat
  BY <1>3, Products DEF PageIndexes
<1>6. left' = Lesser(n, NS * P - s * P - i) /\ Number(a) = s * P + i
  BY <1>1, <1>3, <1>4
<1> HIDE DEF s, i
<1>7. left' \in Nat \ {0} /\ Number(a) + left' <= NS * P
  BY <1>3, <1>5, <1>6 DEF Lesser
<1>8. RestTyped'
  <2>1. Number(at)' = Number(a)
    BY <1>1 DEF Number
  <2>2. a.sec \in 0..NS
    BY <1>3
  <2> QED BY <1>1, <1>3, <1>7, <2>1, <2>2 DEF RestTyped
<1>9. CallTyped'
  <2>1. calls' \in Nat /\ calls' > 0
    BY <1>2 DEF MapInv, CallTyped
  <2> QED BY <1>2, <1>7, <1>8, <2>1 DEF CallTyped
<1>10. MapInv'
  BY <1>2, <1>9, AfterBoot
<1> QED BY <1>1, <1>7, <1>8, <1>10

\* A call of nothing changes nothing.
LEMMA NothingCalled ==
  ASSUME MapInv, CallOfNothing
  PROVE  MapInv'
<1>1. pc = "IDLE" /\ pc' = pc /\ calls' = calls + 1 /\ UNCHANGED ttb /\ calls \in Nat
  BY DEF CallOfNothing, MapInv, CallTyped
<1>2. CallTyped'
  BY <1>1 DEF CallTyped, Calling
<1> QED BY <1>1, <1>2, AfterBoot

\* Multiples of the size of a section.
LEMMA Multiples ==
  ASSUME NEW p \in Nat \ {0}, NEW n \in Nat
  PROVE  /\ n - (n % p) \in Nat /\ n - (n % p) <= n /\ (n - (n % p)) % p = 0
         /\ n % p = 0 /\ n > 0 => n >= p
         /\ n >= p => (n - p) % p = n % p
<1>1. n \div p \in Nat /\ n % p \in 0..(p - 1) /\ n = (n \div p) * p + (n % p)
  BY Digits
<1> DEFINE q == n \div p
<1>2. n - (n % p) = q * p /\ q * p \in Nat
  BY <1>1, Products
<1>3. (q * p) % p = 0
  <2> DEFINE m == q * p
  <2>1. m \in Nat /\ m = q * p + 0 /\ q \in Nat
    BY <1>1, <1>2
  <2>2. m \div p \in Nat /\ m % p \in 0..(p - 1) /\ m = (m \div p) * p + (m % p)
    BY <2>1, Digits
  <2> HIDE DEF m, q
  <2>3. 0 \in 0..(p - 1)
    OBVIOUS
  <2>4. m % p = 0
    BY <2>1, <2>2, <2>3, DigitsUnique
  <2> QED BY <2>4 DEF m
<1>4. n % p = 0 /\ n > 0 => n >= p
  OBVIOUS
<1>5. n >= p => (n - p) % p = n % p
  <2> SUFFICES ASSUME n >= p PROVE (n - p) % p = n % p
    OBVIOUS
  <2> DEFINE m == n - p
  <2>1. m \in Nat
    OBVIOUS
  <2>2. m \div p \in Nat /\ m % p \in 0..(p - 1) /\ m = (m \div p) * p + (m % p)
    BY <2>1, Digits
  <2>3. ((m \div p) + 1) * p = (m \div p) * p + p /\ (m \div p) * p \in Nat
    BY <2>2, Products
  <2>4. n = ((m \div p) + 1) * p + (m % p)
    <3>1. n = m + p
      OBVIOUS
    <3> HIDE DEF m
    <3> QED BY <2>2, <2>3, <3>1
  <2> HIDE DEF m, q
  <2>5. (m \div p) + 1 \in Nat
    BY <2>2
  <2> DEFINE r == (m \div p) + 1
             t == n \div p
             i == m % p
             j == n % p
  <2> HIDE DEF r, t, i, j
  <2>6. r \in Nat /\ t \in Nat /\ i \in 0..(p - 1) /\ j \in 0..(p - 1) /\ t * p + j = r * p + i
    BY <1>1, <2>2, <2>4, <2>5 DEF r, t, i, j
  <2>7. i = j
    BY <2>6, DigitsUnique
  <2> QED BY <2>7 DEF i, j, m
<1> QED BY <1>2, <1>3, <1>4, <1>5, <1>1

\* One page of what is left has been done.
LEMMA PageDone ==
  ASSUME RestTyped, left > 0, left' = left - 1,
         at' = IF at.page + 1 = P THEN [sec |-> at.sec + 1, page |-> 0] ELSE [at EXCEPT !.page = @ + 1]
  PROVE  RestTyped' /\ Number(at)' = Number(at) + 1
<1>1. /\ at \in Addresses /\ at = [sec |-> at.sec, page |-> at.page]
      /\ at.sec \in Nat /\ at.sec < NS /\ NS \in Nat /\ P \in Nat \ {0}
      /\ at.page \in Nat /\ at.page < P /\ left \in Nat
      /\ Number(at) \in Nat /\ Number(at) + left <= NS * P /\ NS * P \in Nat
      /\ Number(at) = at.sec * P + at.page
  BY RestIsThere, MmuSizes, PagesNumbered DEF RestTyped, Addresses, Sections, PageIndexes, Number
<1>2. (at.sec + 1) * P = at.sec * P + P /\ at.sec * P \in Nat
  BY <1>1, Products
<1>3. CASE at.page + 1 = P
  <2>1. at' = [sec |-> at.sec + 1, page |-> 0]
    BY <1>3
  <2>2. Number(at)' = (at.sec + 1) * P + 0
    BY <2>1 DEF Number
  <2>3. Number(at)' = Number(at) + 1
    BY <1>1, <1>2, <1>3, <2>2
  <2>4. at'.sec \in 0..NS /\ at'.page \in PageIndexes /\ at' = [sec |-> at'.sec, page |-> at'.page]
    BY <1>1, <2>1 DEF PageIndexes
  <2>5. left' \in Nat /\ Number(at)' + left' <= NS * P
    BY <1>1, <2>3
  <2> QED BY <2>3, <2>4, <2>5 DEF RestTyped
<1>4. CASE at.page + 1 # P
  <2>1. at' = [sec |-> at.sec, page |-> at.page + 1]
    BY <1>1, <1>4
  <2>2. Number(at)' = at.sec * P + (at.page + 1)
    BY <2>1 DEF Number
  <2>3. Number(at)' = Number(at) + 1
    BY <1>1, <1>2, <2>2
  <2>4. at'.sec \in 0..NS /\ at'.page \in PageIndexes /\ at' = [sec |-> at'.sec, page |-> at'.page]
    <3>1. at.sec \in 0..NS /\ at.page + 1 \in PageIndexes
      <4> DEFINE i == at.page
      <4>1. i \in Nat /\ i < P /\ P \in Nat /\ i + 1 # P
        BY <1>1, <1>4
      <4> HIDE DEF i
      <4>2. i + 1 \in 0..(P - 1)
        BY <4>1
      <4> QED BY <1>1, <4>2 DEF i, PageIndexes
    <3> QED BY <2>1, <3>1
  <2>5. left' \in Nat /\ Number(at)' + left' <= NS * P
    BY <1>1, <2>3
  <2> QED BY <2>3, <2>4, <2>5 DEF RestTyped
<1> QED BY <1>3, <1>4

\* One section of what is left has been done.
LEMMA SectionDone ==
  ASSUME RestTyped, left >= P, at.page = 0, left' = left - P, at' = [at EXCEPT !.sec = @ + 1]
  PROVE  RestTyped' /\ Number(at)' = Number(at) + P
<1>1. left \in Nat /\ P \in Nat \ {0} /\ left > 0
  BY MmuSizes DEF RestTyped
<1>2. /\ at \in Addresses /\ at = [sec |-> at.sec, page |-> at.page]
      /\ at.sec \in Nat /\ at.sec < NS /\ NS \in Nat
      /\ Number(at) \in Nat /\ Number(at) + left <= NS * P /\ NS * P \in Nat
      /\ Number(at) = at.sec * P + at.page
  BY <1>1, RestIsThere, MmuSizes, PagesNumbered DEF RestTyped, Addresses, Sections, Number
<1>3. (at.sec + 1) * P = at.sec * P + P /\ at.sec * P \in Nat
  BY <1>1, <1>2, Products
<1>4. at' = [sec |-> at.sec + 1, page |-> 0]
  BY <1>2
<1>5. Number(at)' = (at.sec + 1) * P + 0
  BY <1>4 DEF Number
<1>6. Number(at)' = Number(at) + P
  BY <1>1, <1>2, <1>3, <1>5
<1>7. at'.sec \in 0..NS /\ at'.page \in PageIndexes /\ at' = [sec |-> at'.sec, page |-> at'.page]
  BY <1>1, <1>2, <1>4 DEF PageIndexes
<1>8. left' \in Nat /\ Number(at)' + left' <= NS * P
  BY <1>1, <1>2, <1>6
<1> QED BY <1>6, <1>7, <1>8 DEF RestTyped

\* The next part is no more than what is left, and whole sections end where one does.
LEMMA ChunkBegins ==
  ASSUME MapInv, NextChunk
  PROVE  MapInv'
<1>1. /\ pc \in {"LOOP", "PAGES", "SECTIONS"} /\ left > 0
      /\ UNCHANGED <<ttb, request, at, left, calls>>
      /\ \/ pc' = "UNSUPPORTED" /\ chunk' = 0
         \/ request.cache # "UNSUPPORTED" /\ pc' = "PAGES" /\ chunk' = PageChunk
         \/ /\ request.cache # "UNSUPPORTED" /\ at.page = 0
            /\ pc' = "SECTIONS" /\ chunk' = left - (left % P)
  BY DEF NextChunk, bootVars
<1>2. calls > 0 /\ request \in Requests /\ RestTyped /\ calls \in Nat
  BY <1>1 DEF MapInv, CallTyped, Calling
<1>3. left \in Nat /\ P \in Nat \ {0} /\ at.page \in 0..(P - 1)
  BY <1>2, MmuSizes DEF RestTyped, PageIndexes
<1>4. chunk' \in Nat /\ chunk' <= left /\ (pc' = "SECTIONS" => at.page = 0 /\ chunk' % P = 0)
  <2>1. PageChunk \in Nat /\ PageChunk <= left
    BY <1>3 DEF PageChunk
  <2>2. left - (left % P) \in Nat /\ left - (left % P) <= left /\ (left - (left % P)) % P = 0
    BY <1>3, Multiples
  <2> QED BY <1>1, <1>3, <2>1, <2>2
<1>5. RestTyped'
  BY <1>1, <1>2 DEF RestTyped, Number
<1>6. CallTyped'
  <2>1. pc' = "SECTIONS" => (at'.page + chunk') % P = 0 /\ at'.page = 0
    <3> DEFINE c == chunk'
    <3>1. c \in Nat
      BY <1>4
    <3> HIDE DEF c
    <3>2. 0 + c = c
      BY <3>1
    <3> QED BY <1>1, <1>4, <3>2 DEF c
  <2> QED BY <1>1, <1>2, <1>4, <1>5, <2>1 DEF CallTyped
<1> QED BY <1>1, <1>6, AfterBoot

\* A section is split into pages.
LEMMA SectionConverted ==
  ASSUME TablesTyped, MapInv, ConvertSectionToPages
  PROVE  MapInv'
<1>1. /\ pc = "PAGES" /\ chunk > 0 /\ ttb[at.sec].kind # "table"
      /\ UNCHANGED <<request, at, left, chunk, calls>>
      /\ \/ ttb' = [ttb EXCEPT ![at.sec] = Table(AsPages(at.sec))] /\ pc' = pc
         \/ pc' = "OUT_OF_RESOURCES" /\ ttb' = ttb
  BY DEF ConvertSectionToPages
<1>2. /\ calls > 0 /\ request \in Requests /\ RestTyped /\ calls \in Nat /\ chunk \in Nat /\ chunk <= left
      /\ request.cache # "UNSUPPORTED"
  BY <1>1 DEF MapInv, CallTyped, Calling
<1>3. CallTyped'
  <2>1. RestTyped'
    BY <1>1, <1>2 DEF RestTyped, Number
  <2> QED BY <1>1, <1>2, <2>1 DEF CallTyped
<1>4. CASE ttb' = ttb /\ pc' = "OUT_OF_RESOURCES"
  BY <1>1, <1>3, <1>4, AfterBoot
<1>5. CASE ttb' = [ttb EXCEPT ![at.sec] = Table(AsPages(at.sec))] /\ pc' = pc
  <2>1. at \in Addresses
    BY <1>1, <1>2, RestIsThere DEF RestTyped
  <2>2. \A t \in Sections : ttb'[t] = IF t = at.sec THEN Table(AsPages(at.sec)) ELSE ttb[t]
    BY <1>5, EntryChanged
  <2>3. EntryTyped(Table(AsPages(at.sec)))
    BY <2>1, PagesAllowed DEF MapInv, EntriesTyped, Addresses
  <2>4. EntriesTyped'
    BY <2>2, <2>3 DEF MapInv, EntriesTyped
  <2>5. TablesBegun'
    BY <1>1, <1>5, <2>2 DEF MapInv, TablesBegun, TablesFilled, Table, AsPages, Page
  <2> QED BY <1>1, <1>3, <1>5, <2>4, <2>5 DEF MapInv, FillTyped, MappedSoFar
<1> QED BY <1>1, <1>4, <1>5

\* The entry of a page that is changed is that of a table, and the next page follows.
LEMMA PageUpdated ==
  ASSUME TablesTyped, MapInv, UpdatePageEntry
  PROVE  /\ MapInv' /\ at \in Addresses /\ Number(at)' = Number(at) + 1
         /\ \A a \in Addresses :
              EntryAccess(ttb'[a.sec], a.page) =
                IF a = at THEN Updated(request, EntryAccess(ttb[a.sec], a.page))
                          ELSE EntryAccess(ttb[a.sec], a.page)
<1> DEFINE entry == ttb[at.sec].pages[at.page]
           new == NewPage(entry)
           pages == [ttb[at.sec].pages EXCEPT ![at.page] = new]
           d == Table(pages)
<1>1. /\ pc \in {"PAGES", "SECTIONS"} /\ chunk > 0 /\ ttb[at.sec].kind = "table"
      /\ ttb' = [ttb EXCEPT ![at.sec] = d]
      /\ at' = IF at.page + 1 = P THEN [sec |-> at.sec + 1, page |-> 0] ELSE [at EXCEPT !.page = @ + 1]
      /\ left' = left - 1 /\ chunk' = chunk - 1
      /\ UNCHANGED <<pc, request, calls>>
  BY DEF UpdatePageEntry
<1>2. /\ calls > 0 /\ request \in Requests /\ RestTyped /\ calls \in Nat /\ chunk \in Nat /\ chunk <= left
      /\ request.cache # "UNSUPPORTED"
      /\ pc = "SECTIONS" => (at.page + chunk) % P = 0
  BY <1>1 DEF MapInv, CallTyped, Calling
<1>3. /\ left > 0 /\ left \in Nat /\ at \in Addresses /\ at.page \in PageIndexes /\ at.sec \in Sections
      /\ at = [sec |-> at.sec, page |-> at.page] /\ P \in Nat \ {0}
  BY <1>1, <1>2, RestIsThere, MmuSizes DEF RestTyped, Addresses
<1>4. RestTyped' /\ Number(at)' = Number(at) + 1
  <2> HIDE DEF d
  <2> QED BY <1>1, <1>2, <1>3, PageDone
<1>5. ttb[at.sec].pages = [i \in PageIndexes |-> ttb[at.sec].pages[i]]
  BY <1>1, <1>3 DEF TablesTyped
<1>6. entry = Fault \/ (entry.kind = "page" /\ LeafTyped(entry))
  BY <1>1, <1>3 DEF MapInv, EntriesTyped, EntryTyped, Fault
<1> HIDE DEF entry
<1>7. /\ new.kind = "page" /\ LeafTyped(new)
      /\ new.attr = Updated(request, IF entry.kind = "page" THEN entry.attr ELSE ZeroAttr)
  BY <1>2, <1>6, NewPageTyped
<1> HIDE DEF new
<1>8. \A i \in PageIndexes : pages[i] = IF i = at.page THEN new ELSE ttb[at.sec].pages[i]
  BY <1>5
<1>9. d.kind = "table" /\ d.pages = pages
  BY DEF Table
<1> HIDE DEF d, pages
<1>10. \A t \in Sections : ttb'[t] = IF t = at.sec THEN d ELSE ttb[t]
  <2>1. ttb' = [ttb EXCEPT ![at.sec] = d]
    BY <1>1
  <2> QED BY <2>1 DEF TablesTyped
<1>11. EntriesTyped'
  <2>1. \A i \in PageIndexes :
          ttb[at.sec].pages[i] = Fault
            \/ (ttb[at.sec].pages[i].kind = "page" /\ LeafTyped(ttb[at.sec].pages[i]))
    BY <1>1, <1>3 DEF MapInv, EntriesTyped, EntryTyped, Fault
  <2>2. EntryTyped(d)
    BY <1>7, <1>8, <1>9, <2>1 DEF EntryTyped
  <2> QED BY <1>10, <2>2 DEF MapInv, EntriesTyped
<1>12. TablesBegun'
  <2>1. \A i \in PageIndexes : d.pages[i].kind = "page"
    BY <1>1, <1>3, <1>7, <1>8, <1>9 DEF MapInv, TablesBegun, TablesFilled
  <2> QED BY <1>1, <1>10, <2>1 DEF MapInv, TablesBegun, TablesFilled
<1>13. CallTyped'
  <2>1. chunk' \in Nat /\ chunk' <= left'
    BY <1>1, <1>2, <1>3
  <2>2. ASSUME pc = "SECTIONS", chunk' > 0
        PROVE  (at'.page + chunk') % P = 0 /\ (at'.page # 0 => ttb'[at'.sec].kind = "table")
    <3> DEFINE i == at.page
               c == chunk
               n == i + c
    <3>1. i \in Nat /\ i < P /\ c \in Nat /\ c > 0
      BY <1>1, <1>2, <1>3 DEF PageIndexes
    <3>2. n % P = 0
      BY <1>2, <2>2
    <3>3. CASE i + 1 = P
      <4>1. at'.page = 0
        BY <1>1, <3>3
      <4> HIDE DEF i, c
      <4>2. n \in Nat /\ n >= P /\ n - P = 0 + (c - 1)
        BY <1>3, <3>1, <3>3
      <4> HIDE DEF n
      <4>3. (n - P) % P = 0
        BY <1>3, <3>2, <4>2, Multiples
      <4> QED BY <1>1, <4>1, <4>2, <4>3 DEF c
    <3>4. CASE i + 1 # P
      <4>1. at'.page = i + 1 /\ at'.sec = at.sec
        BY <1>1, <1>3, <3>4
      <4>2. ttb'[at'.sec].kind = "table"
        BY <1>3, <1>9, <1>10, <4>1
      <4> HIDE DEF i, c
      <4>3. (i + 1) + (c - 1) = n
        BY <3>1
      <4> QED BY <1>1, <3>2, <4>1, <4>2, <4>3 DEF c
    <3> QED BY <3>3, <3>4
  <2> QED BY <1>1, <1>2, <1>4, <2>1, <2>2 DEF CallTyped
<1>14. MapInv'
  BY <1>1, <1>11, <1>12, <1>13 DEF MapInv, FillTyped, MappedSoFar
<1>15. ASSUME NEW a \in Addresses
       PROVE  EntryAccess(ttb'[a.sec], a.page) =
                IF a = at THEN Updated(request, EntryAccess(ttb[a.sec], a.page))
                          ELSE EntryAccess(ttb[a.sec], a.page)
  <2>1. a.sec \in Sections /\ a.page \in PageIndexes /\ a = [sec |-> a.sec, page |-> a.page]
    BY DEF Addresses
  <2>2. CASE a.sec # at.sec
    BY <1>10, <2>1, <2>2
  <2>3. CASE a.sec = at.sec /\ a.page # at.page
    <3>1. ttb'[a.sec] = d /\ d.pages[a.page] = ttb[a.sec].pages[a.page]
      BY <1>8, <1>9, <1>10, <2>1, <2>3
    <3>2. a # at
      BY <2>3
    <3> QED BY <1>1, <1>9, <2>3, <3>1, <3>2 DEF EntryAccess, Maps, EntryAttr
  <2>4. CASE a.sec = at.sec /\ a.page = at.page
    <3>1. ttb'[a.sec] = d /\ d.pages[a.page] = new /\ a = at
      BY <1>3, <1>8, <1>9, <1>10, <2>1, <2>4
    <3>2. EntryAccess(d, a.page) = new.attr
      BY <1>7, <1>9, <3>1 DEF EntryAccess, Maps, EntryAttr
    <3>3. EntryAccess(ttb[a.sec], a.page) = IF entry.kind = "page" THEN entry.attr ELSE ZeroAttr
      BY <1>1, <2>4 DEF EntryAccess, Maps, EntryAttr, entry
    <3> QED BY <1>7, <3>1, <3>2, <3>3
  <2> QED BY <2>2, <2>3, <2>4
<1> QED BY <1>3, <1>4, <1>14, <1>15

\* The entry of a section that is changed is not that of a table, and a whole section is left.
LEMMA SectionUpdated ==
  ASSUME TablesTyped, MapInv, UpdateSectionEntry
  PROVE  /\ MapInv' /\ at \in Addresses /\ at.page = 0 /\ left >= P /\ Number(at)' = Number(at) + P
         /\ \A a \in Addresses :
              EntryAccess(ttb'[a.sec], a.page) =
                IF a.sec = at.sec THEN Updated(request, EntryAccess(ttb[a.sec], a.page))
                                  ELSE EntryAccess(ttb[a.sec], a.page)
<1> DEFINE d == NewSection(at.sec)
           old == ttb[at.sec]
<1>1. /\ pc = "SECTIONS" /\ chunk > 0 /\ old.kind # "table"
      /\ ttb' = [ttb EXCEPT ![at.sec] = d]
      /\ at' = [at EXCEPT !.sec = @ + 1]
      /\ left' = left - P /\ chunk' = chunk - P
      /\ UNCHANGED <<pc, request, calls>>
  BY DEF UpdateSectionEntry
<1>2. /\ calls > 0 /\ request \in Requests /\ RestTyped /\ calls \in Nat /\ chunk \in Nat /\ chunk <= left
      /\ request.cache # "UNSUPPORTED"
      /\ (at.page + chunk) % P = 0 /\ at.page = 0
  BY <1>1 DEF MapInv, CallTyped, Calling
<1>3. /\ left \in Nat /\ left > 0 /\ at \in Addresses /\ at.sec \in Sections
      /\ at = [sec |-> at.sec, page |-> at.page] /\ P \in Nat \ {0}
  BY <1>1, <1>2, RestIsThere, MmuSizes DEF RestTyped, Addresses
<1>4. chunk >= P /\ chunk % P = 0 /\ left >= P
  <2> DEFINE c == chunk
  <2>1. c \in Nat /\ c > 0 /\ (0 + c) % P = 0
    BY <1>1, <1>2
  <2> HIDE DEF c
  <2>2. 0 + c = c
    BY <2>1
  <2>3. c % P = 0 /\ c >= P
    BY <1>3, <2>1, <2>2, Multiples
  <2> QED BY <1>2, <1>3, <2>1, <2>3 DEF c
<1>5. RestTyped' /\ Number(at)' = Number(at) + P
  <2> HIDE DEF d, old
  <2> QED BY <1>1, <1>2, <1>4, SectionDone
<1>6. /\ d.kind = "section" /\ LeafTyped(d)
      /\ d.attr = Updated(request, IF old.kind = "section" THEN old.attr ELSE ZeroAttr)
  BY <1>1, <1>2, <1>3, NewSectionTyped DEF MapInv, EntriesTyped
<1> HIDE DEF d
<1>7. \A t \in Sections : ttb'[t] = IF t = at.sec THEN d ELSE ttb[t]
  <2>1. ttb' = [ttb EXCEPT ![at.sec] = d]
    BY <1>1
  <2> QED BY <2>1 DEF TablesTyped
<1>8. EntriesTyped'
  BY <1>6, <1>7 DEF MapInv, EntriesTyped, EntryTyped
<1>9. TablesBegun'
  BY <1>1, <1>6, <1>7 DEF MapInv, TablesBegun, TablesFilled
<1>10. CallTyped'
  <2> DEFINE c == chunk
             e == chunk'
  <2>1. c \in Nat /\ c >= P /\ c % P = 0 /\ e = c - P /\ c <= left
    BY <1>1, <1>2, <1>4
  <2>2. at'.page = 0
    BY <1>1, <1>2, <1>3
  <2> HIDE DEF c, e
  <2>3. (c - P) % P = 0 /\ c - P \in Nat
    BY <1>3, <2>1, Multiples
  <2>4. e \in Nat /\ e % P = 0 /\ e <= left' /\ 0 + e = e
    BY <1>1, <1>3, <2>1, <2>3
  <2>5. chunk' \in Nat /\ chunk' <= left' /\ (at'.page + chunk') % P = 0
    BY <2>2, <2>4 DEF e
  <2> QED BY <1>1, <1>2, <1>5, <2>2, <2>5 DEF CallTyped
<1>11. MapInv'
  BY <1>1, <1>8, <1>9, <1>10 DEF MapInv, FillTyped, MappedSoFar
<1>12. ASSUME NEW a \in Addresses
       PROVE  EntryAccess(ttb'[a.sec], a.page) =
                IF a.sec = at.sec THEN Updated(request, EntryAccess(ttb[a.sec], a.page))
                                  ELSE EntryAccess(ttb[a.sec], a.page)
  <2>1. a.sec \in Sections
    BY DEF Addresses
  <2>2. EntryAccess(d, a.page) = d.attr
    BY <1>6 DEF EntryAccess, Maps, EntryAttr
  <2>3. EntryAccess(old, a.page) = IF old.kind = "section" THEN old.attr ELSE ZeroAttr
    BY <1>1 DEF EntryAccess, Maps, EntryAttr
  <2> HIDE DEF old
  <2>4. old = ttb[at.sec]
    BY DEF old
  <2> QED BY <1>6, <1>7, <2>1, <2>2, <2>3, <2>4
<1> QED BY <1>2, <1>3, <1>4, <1>5, <1>11, <1>12

\* A call ends.
LEMMA CallReturns ==
  ASSUME MapInv, Return
  PROVE  MapInv'
<1>1. /\ pc \in {"PAGES", "SECTIONS", "UNSUPPORTED", "OUT_OF_RESOURCES"} /\ pc' = "IDLE"
      /\ UNCHANGED <<ttb, calls>>
  BY DEF Return
<1>2. calls > 0 /\ calls \in Nat
  BY <1>1 DEF MapInv, CallTyped, Calling
<1>3. CallTyped'
  BY <1>1, <1>2 DEF CallTyped, Calling
<1> QED BY <1>1, <1>2, <1>3, AfterBoot

\* What the processor has cached says nothing of the map.
LEMMA SameMap ==
  ASSUME MapInv, UNCHANGED <<ttb, regions, index, pc, request, at, left, chunk, calls>>
  PROVE  MapInv'
<1>1. CallTyped'
  BY DEF MapInv, CallTyped, Calling, RestTyped, Number
<1>2. FillTyped'
  BY DEF MapInv, FillTyped, RestTyped, Fit, In, Number, Lesser
<1>3. MappedSoFar'
  <2>1. \A a : Number(a)' = Number(a) /\ Number(at)' = Number(at)
    BY DEF Number
  <2>2. \A a : MappedBy(a)' = MappedBy(a)
    BY <2>1 DEF MappedBy, In, Number
  <2>3. \A a : AttrsOf(MappedBy(a))' = AttrsOf(MappedBy(a)) /\ AttrsDeclared(a)' = AttrsDeclared(a)
    BY <2>2 DEF AttrsOf, AttrsDeclared, In, Number
  <2>4. RestTyped => RestTyped'
    BY <2>1 DEF RestTyped
  <2> QED BY <2>3, <2>4 DEF MapInv, MappedSoFar
<1> QED BY <1>1, <1>2, <1>3 DEF MapInv, EntriesTyped, TablesBegun, TablesFilled

\* The map and the calls that change it keep to the invariant.
LEMMA MapStep == TablesTyped /\ MapInv /\ [Next]_mmuVars => MapInv'
<1> SUFFICES ASSUME TablesTyped, MapInv, [Next]_mmuVars PROVE MapInv'
  OBVIOUS
<1>1. CASE UNCHANGED mmuVars \/ Fetch
  BY <1>1, SameMap DEF mmuVars, bootVars, callVars, Fetch
<1>2. CASE Boot
  BY <1>2, BootMaps
<1>3. CASE Update
  BY <1>3, CallBegins, NothingCalled, ChunkBegins, SectionConverted, PageUpdated, SectionUpdated,
     CallReturns DEF Update
<1> QED BY <1>1, <1>2, <1>3 DEF Next

\* After boot a page has the attributes of the last region of the board's map that it is in,
\* whole sections, single pages and overlaps included (FillTranslationTable,
\* PopulateLevel2PageTable).
THEOREM BoardIsMapped == Spec => []MappedAsDeclared
<1>1. ASSUME MapInv PROVE MappedAsDeclared
  BY <1>1, WalkIsEntry DEF MapInv, MappedSoFar, MappedAsDeclared
<1>2. TlbInv => TablesTyped
  BY DEF TlbInv
<1> QED BY <1>1, <1>2, InitTlb, TlbStep, InitMap, MapStep, PTL DEF Spec

\* After boot no table has pages that are not mapped.
LEMMA AlwaysFilled == Spec => []TablesFilled
<1>1. MapInv => TablesFilled
  BY DEF MapInv, TablesBegun
<1>2. TlbInv => TablesTyped
  BY DEF TlbInv
<1> QED BY <1>1, <1>2, InitTlb, TlbStep, InitMap, MapStep, PTL DEF Spec

-----------------------------------------------------------------------------
\* The state of the map that a state of the tables implements.
LEMMA MapStates ==
  /\ \A n \in 0..(NS * P - 1) :
       /\ [k \in 0..(NS * P - 1) |-> AccessOf(PageAt(k))][n] = EntryAccess(ttb[PageAt(n).sec], PageAt(n).page)
       /\ [k \in 0..(NS * P - 1) |-> AccessOf(PageAt(k))]'[n]
            = EntryAccess(ttb'[PageAt(n).sec], PageAt(n).page)
<1>1. \A a : AccessOf(a) = EntryAccess(ttb[a.sec], a.page)
  BY WalkIsEntry
<1>2. (\A a : AccessOf(a) = EntryAccess(ttb[a.sec], a.page))'
  BY <1>1, PTL
<1>3. \A a : AccessOf(a)' = EntryAccess(ttb'[a.sec], a.page)
  BY <1>2 DEF EntryAccess
<1> QED BY <1>1, <1>3

\* Before boot the map may be anything.
LEMMA InitImplements == Init => Map!Init
<1> SUFFICES ASSUME Init PROVE Map!Init
  OBVIOUS
<1>1. ASSUME NEW n \in 0..(NS * P - 1) PROVE AccessOf(PageAt(n)) \in Accesses
  <2>1. PageAt(n).sec \in Sections
    BY PagesNumbered DEF Addresses
  <2>2. ttb[PageAt(n).sec] = Fault
    BY <2>1 DEF Init
  <2>3. AccessOf(PageAt(n)) = ZeroAttr
    BY <2>2, WalkIsEntry DEF EntryAccess, Maps, Fault
  <2> QED BY <2>3, ZeroAllowed
<1>2. pc = "PEIM" /\ status = "SUCCESS"
  BY DEF Init
<1> QED BY <1>1, <1>2 DEF Map!Init, Calling

\* What an entry allows is an access.
LEMMA AccessAllowed ==
  ASSUME NEW d, EntryTyped(d), NEW i \in PageIndexes
  PROVE  EntryAccess(d, i) \in Accesses
<1>1. CASE ~Maps(d, i)
  BY <1>1, ZeroAllowed DEF EntryAccess
<1>2. CASE d.kind = "section"
  <2>1. d.attr \in Accesses
    BY <1>2 DEF EntryTyped, LeafTyped, Fault
  <2> QED BY <1>2, <2>1 DEF EntryAccess, Maps, EntryAttr
<1>3. CASE d.kind = "table" /\ d.pages[i].kind = "page"
  <2>1. d.pages[i] # Fault /\ d # Fault
    BY <1>3 DEF Fault
  <2>2. d.pages[i].attr \in Accesses
    BY <1>3, <2>1 DEF EntryTyped, LeafTyped
  <2> QED BY <1>3, <2>2 DEF EntryAccess, Maps, EntryAttr
<1> QED BY <1>1, <1>2, <1>3 DEF Maps

\* The map's view of a state: the access of each page.
View == [n \in 0..(NS * P - 1) |-> AccessOf(PageAt(n))]

\* The map depends on the tables only.
LEMMA ViewKept == ASSUME UNCHANGED ttb PROVE View' = View
<1>1. \A a : AccessOf(a)' = AccessOf(a)
  BY DEF AccessOf, Walk
<1> QED BY <1>1 DEF View

\* The boot code maps what it likes.
LEMMA BootImplements ==
  ASSUME MapInv', Boot
  PROVE  Map!Map
<1>1. /\ pc \in {"PEIM", "FILL"} /\ pc' \in {"PEIM", "FILL", "IDLE"} /\ UNCHANGED status
  BY DEF Boot, MemoryPeim, FillTranslationTable, FillSection, PopulateLevel2PageTable,
         EnableMmu, callVars
<1>2. View' \in [0..(NS * P - 1) -> Accesses]
  <2>1. ASSUME NEW n \in 0..(NS * P - 1) PROVE View'[n] \in Accesses
    <3>1. PageAt(n) \in Addresses
      BY PagesNumbered
    <3>2. View'[n] = EntryAccess(ttb'[PageAt(n).sec], PageAt(n).page)
      BY MapStates DEF View
    <3>3. PageAt(n).sec \in Sections /\ PageAt(n).page \in PageIndexes
      BY <3>1 DEF Addresses
    <3>4. EntryTyped(ttb'[PageAt(n).sec])
      BY <3>3 DEF MapInv, EntriesTyped, EntryTyped, LeafTyped
    <3> QED BY <3>2, <3>3, <3>4, AccessAllowed
  <2> QED BY <2>1 DEF View
<1>3. ~Calling /\ ~Calling'
  BY <1>1 DEF Calling
<1> QED BY <1>1, <1>2, <1>3 DEF Map!Map, View

\* A call begins with its region.
LEMMA CallImplements ==
  ASSUME MapInv, Call
  PROVE  Map!Begin
<1>1. /\ pc = "IDLE" /\ pc' = "LOOP" /\ request' \in Requests /\ UNCHANGED <<ttb, status>>
  BY DEF Call
<1>2. RestTyped' /\ left' > 0
  BY CallBegins
<1>3. at' \in Addresses
  BY CallBegins
<1> DEFINE f == Number(at)'
           l == f + left' - 1
<1>4. /\ f \in 0..(NS * P - 1) /\ l \in 0..(NS * P - 1) /\ f <= l
  <2>1. f \in 0..(NS * P - 1) /\ NS * P \in Nat
    <3>1. Number(at)' = Number(at')
      BY DEF Number
    <3> QED BY <1>3, <3>1, PagesNumbered
  <2>2. left' \in Nat /\ left' > 0 /\ f + left' <= NS * P
    BY <1>2 DEF RestTyped
  <2> DEFINE m == left'
             e == NS * P
  <2> HIDE DEF f, m, e
  <2>3. f \in 0..(e - 1) /\ m \in Nat /\ m > 0 /\ f + m <= e /\ e \in Nat
    BY <2>1, <2>2 DEF m, e
  <2>4. f + m - 1 \in 0..(e - 1) /\ f <= f + m - 1
    BY <2>3
  <2> QED BY <2>1, <2>4 DEF m, e
<1>5. View' = View
  BY <1>1, ViewKept
<1>6. ~Calling /\ Calling'
  BY <1>1 DEF Calling
<1> QED BY <1>1, <1>4, <1>5, <1>6 DEF Map!Begin, View

\* A call that succeeds has nothing left.
LEMMA ReturnImplements ==
  ASSUME MapInv, Return
  PROVE  Map!End
<1>1. /\ pc \in {"PAGES", "SECTIONS", "UNSUPPORTED", "OUT_OF_RESOURCES"} /\ pc' = "IDLE"
      /\ UNCHANGED ttb /\ (status' = "SUCCESS" => left = 0)
  BY DEF Return
<1>2. Calling /\ ~Calling'
  BY <1>1 DEF Calling
<1>3. request # NoRequest /\ RestTyped
  BY <1>2, MmuRequests DEF MapInv, CallTyped
<1>4. Number(at) \in Nat
  BY <1>3, MmuSizes, Numbers DEF RestTyped
<1>5. status' = "SUCCESS" => Number(at) > Number(at) + left - 1
  BY <1>1, <1>4
<1>6. View' = View
  BY <1>1, ViewKept
<1> QED BY <1>1, <1>2, <1>3, <1>5, <1>6 DEF Map!End, View

\* A step that leaves the map as it is.
LEMMA SameImplements ==
  ASSUME View' = View, Calling' <=> Calling, UNCHANGED <<request, at, left, status>>,
         pc \notin {"PEIM", "FILL"}, pc' \notin {"PEIM", "FILL"}
  PROVE  UNCHANGED Map!mapVars
<1>1. Number(at)' = Number(at)
  BY DEF Number
<1> QED BY <1>1 DEF Map!mapVars, View

\* Splitting a section changes no access.
LEMMA ConvertKeepsView ==
  ASSUME TablesTyped, MapInv, ConvertSectionToPages
  PROVE  View' = View
<1>1. CASE ttb' = ttb
  BY <1>1, ViewKept
<1>2. CASE ttb' = [ttb EXCEPT ![at.sec] = Table(AsPages(at.sec))]
  <2>1. \A t \in Sections : ttb'[t] = IF t = at.sec THEN Table(AsPages(at.sec)) ELSE ttb[t]
    BY <1>2, EntryChanged
  <2>2. ttb[at.sec].kind # "table"
    BY DEF ConvertSectionToPages
  <2>3. ASSUME NEW n \in 0..(NS * P - 1) PROVE View'[n] = View[n]
    <3>1. PageAt(n).sec \in Sections /\ PageAt(n).page \in PageIndexes
      BY PagesNumbered DEF Addresses
    <3>2. EntryAccess(ttb'[PageAt(n).sec], PageAt(n).page) = EntryAccess(ttb[PageAt(n).sec], PageAt(n).page)
      BY <2>1, <2>2, <3>1, AsPagesKeep
    <3> QED BY <3>2, MapStates DEF View
  <2> QED BY <2>3 DEF View
<1> QED BY <1>1, <1>2 DEF ConvertSectionToPages

\* A page is changed.
LEMMA PageImplements ==
  ASSUME TablesTyped, MapInv, UpdatePageEntry
  PROVE  Map!Change
<1>1. /\ pc \in {"PAGES", "SECTIONS"} /\ chunk > 0 /\ left' = left - 1
      /\ UNCHANGED <<pc, request, status>>
  BY DEF UpdatePageEntry
<1>2. /\ at \in Addresses /\ Number(at)' = Number(at) + 1
      /\ \A a \in Addresses :
           EntryAccess(ttb'[a.sec], a.page) =
             IF a = at THEN Updated(request, EntryAccess(ttb[a.sec], a.page))
                       ELSE EntryAccess(ttb[a.sec], a.page)
  BY PageUpdated
<1>3. Calling /\ Calling'
  BY <1>1 DEF Calling
<1>4. /\ request # NoRequest /\ left \in Nat /\ left > 0 /\ Number(at) \in 0..(NS * P - 1) /\ NS * P \in Nat
  <2>1. request # NoRequest /\ RestTyped /\ chunk \in Nat /\ chunk <= left
    BY <1>3, MmuRequests DEF MapInv, CallTyped
  <2> QED BY <1>1, <1>2, <2>1, PagesNumbered DEF RestTyped
<1> DEFINE f == Number(at)
           l == f + left - 1
<1>5. ASSUME NEW n \in 0..(NS * P - 1)
      PROVE  View'[n] = IF n \in f..(f + 1 - 1) THEN Updated(request, View[n]) ELSE View[n]
  <2>1. PageAt(n) \in Addresses /\ (PageAt(n) = at <=> n = f)
    BY <1>2, PagesNumbered
  <2>2. n \in f..(f + 1 - 1) <=> n = f
    <3> HIDE DEF f
    <3> QED BY <1>4 DEF f
  <2>3. View[n] = EntryAccess(ttb[PageAt(n).sec], PageAt(n).page)
    BY MapStates DEF View
  <2>4. View'[n] = EntryAccess(ttb'[PageAt(n).sec], PageAt(n).page)
    BY MapStates DEF View
  <2> HIDE DEF f
  <2> QED BY <1>2, <2>1, <2>2, <2>3, <2>4
<1>6. View' = [n \in 0..(NS * P - 1) |->
                 IF n \in f..(Number(at)' - 1) THEN Updated(request, View[n]) ELSE View[n]]
  <2>1. View' = [n \in 0..(NS * P - 1) |-> View'[n]]
    BY DEF View
  <2> HIDE DEF f
  <2>2. f + 1 - 1 = Number(at)' - 1
    BY <1>2, <1>4 DEF f
  <2> QED BY <1>5, <2>1, <2>2
<1>7. Number(at)' \in (f + 1)..(l + 1) /\ Number(at)' + left' - 1 = l
  <2> HIDE DEF f
  <2> QED BY <1>1, <1>2, <1>4 DEF f
<1> HIDE DEF f, l
<1>8. f = Number(at) /\ l = Number(at) + left - 1
  BY DEF f, l
<1> QED BY <1>1, <1>3, <1>4, <1>6, <1>7, <1>8 DEF Map!Change, View

\* A section's pages are changed.
LEMMA SectionImplements ==
  ASSUME TablesTyped, MapInv, UpdateSectionEntry
  PROVE  Map!Change
<1>1. /\ pc = "SECTIONS" /\ left' = left - P /\ UNCHANGED <<pc, request, status>>
  BY DEF UpdateSectionEntry
<1>2. /\ at \in Addresses /\ at.page = 0 /\ left >= P /\ Number(at)' = Number(at) + P
      /\ \A a \in Addresses :
           EntryAccess(ttb'[a.sec], a.page) =
             IF a.sec = at.sec THEN Updated(request, EntryAccess(ttb[a.sec], a.page))
                               ELSE EntryAccess(ttb[a.sec], a.page)
  BY SectionUpdated
<1>3. Calling /\ Calling'
  BY <1>1 DEF Calling
<1>4. /\ request # NoRequest /\ left \in Nat /\ P \in Nat \ {0}
      /\ Number(at) \in 0..(NS * P - 1) /\ NS * P \in Nat
  <2>1. request # NoRequest /\ RestTyped
    BY <1>3, MmuRequests DEF MapInv, CallTyped
  <2> QED BY <1>2, <2>1, PagesNumbered, MmuSizes DEF RestTyped
<1> DEFINE f == Number(at)
           l == f + left - 1
<1>5. ASSUME NEW n \in 0..(NS * P - 1)
      PROVE  View'[n] = IF n \in f..(f + P - 1) THEN Updated(request, View[n]) ELSE View[n]
  <2>1. PageAt(n) \in Addresses /\ Number(PageAt(n)) = n
    BY PagesNumbered
  <2>2. n \in f..(f + P - 1) <=> PageAt(n).sec = at.sec
    <3>1. Number(PageAt(n)) \in Number(at)..(Number(at) + P - 1)
            <=> PageAt(n).sec = at.sec /\ PageAt(n).page \in at.page..(at.page + P - 1)
      <4>1. at.page + P <= P
        BY <1>2, <1>4
      <4> QED BY <1>2, <1>4, <2>1, <4>1, RangeInSection
    <3>2. PageAt(n).page \in at.page..(at.page + P - 1)
      BY <1>2, <1>4, <2>1 DEF Addresses, PageIndexes
    <3> QED BY <2>1, <3>1, <3>2
  <2>3. View[n] = EntryAccess(ttb[PageAt(n).sec], PageAt(n).page)
    BY MapStates DEF View
  <2>4. View'[n] = EntryAccess(ttb'[PageAt(n).sec], PageAt(n).page)
    BY MapStates DEF View
  <2> HIDE DEF f
  <2> QED BY <1>2, <2>1, <2>2, <2>3, <2>4
<1>6. View' = [n \in 0..(NS * P - 1) |->
                 IF n \in f..(Number(at)' - 1) THEN Updated(request, View[n]) ELSE View[n]]
  <2>1. View' = [n \in 0..(NS * P - 1) |-> View'[n]]
    BY DEF View
  <2> HIDE DEF f
  <2>2. f + P - 1 = Number(at)' - 1
    BY <1>2, <1>4 DEF f
  <2> QED BY <1>5, <2>1, <2>2
<1>7. Number(at)' \in (f + 1)..(l + 1) /\ Number(at)' + left' - 1 = l
  <2> HIDE DEF f
  <2> QED BY <1>1, <1>2, <1>4 DEF f
<1> HIDE DEF f, l
<1>8. f = Number(at) /\ l = Number(at) + left - 1
  BY DEF f, l
<1> QED BY <1>1, <1>3, <1>4, <1>6, <1>7, <1>8 DEF Map!Change, View

\* Every step of the tables is one of the map, or changes nothing of it.
LEMMA StepImplements ==
  TlbInv /\ MapInv /\ MapInv' /\ [Next]_mmuVars => [Map!Next]_Map!mapVars
<1> SUFFICES ASSUME TlbInv, MapInv, MapInv', [Next]_mmuVars PROVE Map!Next \/ UNCHANGED Map!mapVars
  OBVIOUS
<1>1. TablesTyped
  BY DEF TlbInv
<1>2. CASE UNCHANGED mmuVars
  <2>1. View' = View
    BY <1>2, ViewKept DEF mmuVars
  <2>2. Number(at)' = Number(at)
    BY <1>2 DEF mmuVars, callVars, Number
  <2> QED BY <1>2, <2>1, <2>2 DEF mmuVars, callVars, Map!mapVars, View, Calling
<1>3. CASE Boot
  BY <1>3, BootImplements DEF Map!Next
<1>4. CASE Call
  BY <1>4, CallImplements DEF Map!Next
<1>5. CASE CallOfNothing
  <2>1. pc = "IDLE" /\ pc' = "IDLE" /\ View' = View
    BY <1>5, ViewKept DEF CallOfNothing
  <2>2. Map!Decline
    BY <2>1 DEF Map!Decline, Calling, View
  <2> QED BY <2>2 DEF Map!Next
<1>6. CASE NextChunk
  <2>1. /\ pc \in {"LOOP", "PAGES", "SECTIONS"} /\ pc' \in {"PAGES", "SECTIONS", "UNSUPPORTED"}
        /\ View' = View /\ UNCHANGED <<request, at, left, status>>
    BY <1>6, ViewKept DEF NextChunk
  <2> QED BY <2>1, SameImplements DEF Calling
<1>7. CASE ConvertSectionToPages
  <2>1. /\ pc = "PAGES" /\ pc' \in {"PAGES", "OUT_OF_RESOURCES"} /\ UNCHANGED <<request, at, left, status>>
    BY <1>7 DEF ConvertSectionToPages
  <2>2. View' = View
    BY <1>1, <1>7, ConvertKeepsView
  <2> QED BY <2>1, <2>2, SameImplements DEF Calling
<1>8. CASE UpdatePageEntry
  BY <1>1, <1>8, PageImplements DEF Map!Next
<1>9. CASE UpdateSectionEntry
  BY <1>1, <1>9, SectionImplements DEF Map!Next
<1>10. CASE Return
  BY <1>10, ReturnImplements DEF Map!Next
<1>11. CASE Fetch
  <2>1. pc \notin {"PEIM", "FILL"} /\ pc' = pc /\ View' = View /\ UNCHANGED <<request, at, left, status>>
    BY <1>11, ViewKept DEF Fetch, callVars
  <2> QED BY <2>1, SameImplements DEF Calling
<1> QED BY <1>2, <1>3, <1>4, <1>5, <1>6, <1>7, <1>8, <1>9, <1>10, <1>11 DEF Next, Update

\* ArmSetMemoryAttributes changes the pages of its region and no others, from the first on,
\* and all of them when it succeeds, also when it splits sections and fails half way
\* (ArmSetMemoryAttributes, UpdatePageEntries, UpdateSectionEntries).
THEOREM RegionsAreChanged == Spec => ImplementsMemoryMap
<1>1. TlbInv => TablesTyped
  BY DEF TlbInv
<1> QED BY <1>1, InitTlb, TlbStep, InitMap, MapStep, InitImplements, StepImplements, PTL
        DEF Spec, ImplementsMemoryMap, Map!Spec

-----------------------------------------------------------------------------
\* An entry that maps something maps it to itself.
EntryIdentical(s, d) ==
  /\ d.kind = "section" => d = Section(s, d.attr)
  /\ d.kind = "table" =>
       /\ d.pages = [i \in PageIndexes |-> d.pages[i]]
       /\ \A i \in PageIndexes : d.pages[i].kind = "page" => d.pages[i] = Page(s, i, d.pages[i].attr)

TablesIdentical ==
  /\ ttb = [s \in Sections |-> ttb[s]]
  /\ \A s \in Sections : EntryIdentical(s, ttb[s])

\* One entry is written.
LEMMA EntryWritten ==
  ASSUME TablesIdentical, NEW s, NEW d, ttb' = [ttb EXCEPT ![s] = d],
         s \in Sections => EntryIdentical(s, d)
  PROVE  TablesIdentical'
BY DEF TablesIdentical, EntryIdentical

\* Pages made from a section are identical.
LEMMA AsPagesIdentical == \A s : EntryIdentical(s, Table(AsPages(s)))
BY DEF EntryIdentical, Table, AsPages, Page

LEMMA IdentityStep == TablesIdentical /\ TablesFilled /\ [Next]_mmuVars => TablesIdentical'
<1> SUFFICES ASSUME TablesIdentical, TablesFilled, [Next]_mmuVars PROVE TablesIdentical'
  OBVIOUS
<1>1. CASE UNCHANGED ttb
  BY <1>1 DEF TablesIdentical, EntryIdentical
<1>2. CASE FillSection
  <2>1. EntryIdentical(at.sec, Section(at.sec, request))
    BY DEF EntryIdentical, Section
  <2> QED BY <1>2, <2>1, EntryWritten DEF FillSection
<1>3. CASE PopulateLevel2PageTable
  <2> DEFINE Written(m) == [i \in PageIndexes |-> IF i \in at.page..(at.page + m - 1)
                              THEN Page(at.sec, i, request) ELSE Level2Pages(at.sec)[i]]
             n == Lesser(left, P - at.page)
  <2>1. ttb' = [ttb EXCEPT ![at.sec] = Table(Written(n))]
    BY <1>3 DEF PopulateLevel2PageTable
  <2>2. ASSUME at.sec \in Sections
        PROVE  \A i \in PageIndexes : Level2Pages(at.sec)[i].kind = "page" =>
                 Level2Pages(at.sec)[i] = Page(at.sec, i, Level2Pages(at.sec)[i].attr)
    BY <2>2 DEF Level2Pages, TablesIdentical, EntryIdentical, AsPages, Page, Fault
  <2>3. at.sec \in Sections => EntryIdentical(at.sec, Table(Written(n)))
    BY <2>2 DEF EntryIdentical, Table, Page
  <2> QED BY <2>1, <2>3, EntryWritten
<1>4. CASE ConvertSectionToPages
  <2>1. CASE ttb' = [ttb EXCEPT ![at.sec] = Table(AsPages(at.sec))]
    BY <2>1, AsPagesIdentical, EntryWritten
  <2> QED BY <1>1, <1>4, <2>1 DEF ConvertSectionToPages
<1>5. CASE UpdatePageEntry
  <2> DEFINE entry == ttb[at.sec].pages[at.page]
             pages == [ttb[at.sec].pages EXCEPT ![at.page] = NewPage(entry)]
  <2>1. /\ ttb' = [ttb EXCEPT ![at.sec] = Table(pages)] /\ pc \notin {"PEIM", "FILL"}
        /\ ttb[at.sec].kind = "table"
    BY <1>5 DEF UpdatePageEntry
  <2>2. ASSUME at.sec \in Sections PROVE EntryIdentical(at.sec, Table(pages))
    <3>1. /\ ttb[at.sec].pages = [i \in PageIndexes |-> ttb[at.sec].pages[i]]
          /\ \A i \in PageIndexes : ttb[at.sec].pages[i] = Page(at.sec, i, ttb[at.sec].pages[i].attr)
      BY <2>1, <2>2 DEF TablesIdentical, TablesFilled, EntryIdentical
    <3>2. at.page \in PageIndexes => NewPage(entry) = Page(at.sec, at.page, NewPage(entry).attr)
      <4> SUFFICES ASSUME at.page \in PageIndexes
                   PROVE  NewPage(entry) = Page(at.sec, at.page, NewPage(entry).attr)
        OBVIOUS
      <4>1. entry = [kind |-> "page", to |-> [sec |-> at.sec, page |-> at.page],
                     attr |-> entry.attr]
        BY <3>1 DEF Page
      <4> HIDE DEF entry
      <4>2. NewPage(entry) = [entry EXCEPT !.attr = Updated(request, entry.attr)]
        BY <4>1 DEF NewPage
      <4>3. NewPage(entry) = [kind |-> "page", to |-> [sec |-> at.sec, page |-> at.page],
                              attr |-> Updated(request, entry.attr)]
        BY <4>1, <4>2
      <4> QED BY <4>3 DEF Page
    <3> HIDE DEF entry
    <3>3. ASSUME NEW i \in PageIndexes PROVE pages[i] = Page(at.sec, i, pages[i].attr)
      <4>1. CASE i = at.page
        <5>1. pages[i] = NewPage(entry)
          BY <3>1, <4>1
        <5> HIDE DEF pages
        <5> QED BY <3>2, <4>1, <5>1
      <4>2. CASE i # at.page
        <5>1. pages[i] = ttb[at.sec].pages[i]
          BY <3>1, <4>2
        <5> HIDE DEF pages
        <5> QED BY <3>1, <5>1
      <4> QED BY <4>1, <4>2
    <3> QED BY <3>1, <3>3 DEF EntryIdentical, Table
  <2> HIDE DEF pages
  <2> QED BY <2>1, <2>2, EntryWritten
<1>6. CASE UpdateSectionEntry
  <2>1. ttb' = [ttb EXCEPT ![at.sec] = NewSection(at.sec)] /\ ttb[at.sec].kind # "table"
    BY <1>6 DEF UpdateSectionEntry
  <2>2. ASSUME at.sec \in Sections PROVE EntryIdentical(at.sec, NewSection(at.sec))
    BY <2>1, <2>2 DEF NewSection, TablesIdentical, EntryIdentical, Section
  <2> QED BY <2>1, <2>2, EntryWritten
<1> QED BY <1>1, <1>2, <1>3, <1>4, <1>5, <1>6
        DEF Next, Boot, MemoryPeim, FillTranslationTable, EnableMmu, Update, Call, CallOfNothing,
            NextChunk, Return, Fetch, mmuVars

\* Every address is translated to itself at all times, as the board's map leaves no part of a
\* section out (UpdatePageEntries keeps the base of an entry, UpdateSectionEntries gives a
\* section that was not mapped its own).
THEOREM IdentityKept == Spec => []Identity
<1>1. Init => TablesIdentical
  BY DEF Init, TablesIdentical, EntryIdentical, Fault
<1>2. TablesIdentical => Identity
  <2> SUFFICES ASSUME TablesIdentical, NEW a \in Addresses, NEW t \in Walk(a) PROVE t.to = a
    BY DEF Identity
  <2>1. /\ a.sec \in Sections /\ a.page \in PageIndexes
        /\ a = [sec |-> a.sec, page |-> a.page] /\ EntryIdentical(a.sec, ttb[a.sec])
    BY DEF Addresses, TablesIdentical
  <2>2. CASE ttb[a.sec].kind = "section"
    <3>1. t.to = [a EXCEPT !.sec = ttb[a.sec].to]
      <4>1. Walk(a) = {[grain |-> "section", to |-> [a EXCEPT !.sec = ttb[a.sec].to],
                        attr |-> ttb[a.sec].attr]}
        BY <2>2, Zenon DEF Walk
      <4> QED BY <4>1
    <3>2. ttb[a.sec].to = a.sec
      BY <2>1, <2>2 DEF EntryIdentical, Section
    <3> QED BY <2>1, <3>1, <3>2
  <2>3. CASE ttb[a.sec].kind = "table" /\ ttb[a.sec].pages[a.page].kind = "page"
    <3>1. t.to = ttb[a.sec].pages[a.page].to
      BY <2>3 DEF Walk
    <3>2. ttb[a.sec].pages[a.page].to = [sec |-> a.sec, page |-> a.page]
      <4>1. ttb[a.sec].pages[a.page] = Page(a.sec, a.page, ttb[a.sec].pages[a.page].attr)
        BY <2>1, <2>3 DEF EntryIdentical
      <4>2. \A attr : Page(a.sec, a.page, attr).to = [sec |-> a.sec, page |-> a.page]
        BY DEF Page
      <4> QED BY <4>1, <4>2
    <3> QED BY <2>1, <3>1, <3>2
  <2> QED BY <2>2, <2>3 DEF Walk
<1> QED BY <1>1, <1>2, IdentityStep, AlwaysFilled, PTL DEF Spec
================================================================================
