-------------------------------- MODULE Coffee --------------------------------
(* The Coffee flash file system, cfs-coffee.c: extents of contiguous pages    *)
(* found by skipping from header to header, micro logs that take the changes  *)
(* of a file until they are merged into a new extent, a garbage collector     *)
(* that erases sectors, and a cache of file objects in RAM.  The power may    *)
(* fail after any write of a kind in CrashIn.                                 *)
(*                                                                            *)
(* The unit of data is a region, of the size of a log record and of a page:   *)
(* page start + r of an extent holds region r of the file, or record r of a   *)
(* log with its index i, beside the header in the first page.  Configuration  *)
(* as by default: COFFEE_MICRO_LOGS, COFFEE_EXTENDED_WEAR_LEVELLING, no I/O   *)
(* semantics; the log configuration is the same for all files.  An            *)
(* application has one file open at a time.                                   *)
EXTENDS Integers, Sequences, FiniteSets

CONSTANTS Names, Values, NoFile, Nobody,
          Sectors,              \* COFFEE_SECTOR_COUNT
          PagesPerSector,       \* COFFEE_PAGES_PER_SECTOR
          DynPages,             \* page_count(COFFEE_DYN_SIZE)
          LogRecords,           \* records of a log, and its pages
          Slots,                \* COFFEE_MAX_OPEN_FILES
          MaxRegions,           \* bound: MaxRegions[n] regions of file n
          CrashIn               \* the writes after which the power may fail

PageCount == Sectors * PagesPerSector
Pages == 0..(PageCount - 1)
INVALID == -1
Dummy == 255                    \* the byte written at the end of an extent

\* The writes to the flash that an operation is made of: the header of a new
\* extent, data appended, the log (its page in the header of the file, records,
\* the end of the file), the index of a record whose data is still to come, the
\* copying of a merge, a header made obsolete, the collector's.
Kinds == {"reserve", "append", "log", "index", "merge", "remove", "gc"}

ASSUME CoffeeAssumption ==
  /\ {Sectors, PagesPerSector, DynPages, LogRecords} \subseteq Nat \ {0}
  /\ MaxRegions \in [Names -> Nat]
  /\ Slots \in Nat /\ Slots >= 2
  /\ {0, Dummy} \cap Values = {}
  /\ CrashIn \subseteq Kinds

VARIABLES flash,        \* flash[p]: [h |-> header, d |-> data]
          ram,          \* protected_mem: next_free, gc_wait, coffee_files
          files         \* history: what each file holds by the calls made so far

vars == <<flash, ram, files>>

\* An erased header, data that was never written, and an erased page.
Zero == [name |-> Nobody, max |-> 0, log |-> FALSE, obs |-> FALSE,
         iso |-> FALSE, mod |-> FALSE, lp |-> 0]
Nil == [i |-> 0, v |-> 0]
Blank == [h |-> Zero, d |-> Nil]
NoEntry == [page |-> INVALID]                      \* an unused file object

Ram0 == [next_free |-> 0, gc_wait |-> FALSE,
         files |-> [i \in 1..Slots |-> NoEntry]]

Init == /\ flash = [p \in Pages |-> Blank]
        /\ ram = Ram0
        /\ files = [n \in Names |-> NoFile]

-------------------------------------------------------------------------------
(* Headers and the quick-skip walk.                                           *)

Header(n, pages, log) ==
  [Zero EXCEPT !.name = n, !.max = pages, !.log = log]

HDR_FREE(h) == h = Zero
HDR_ACTIVE(h) == h # Zero /\ ~h.obs /\ ~h.iso

\* What is read as a header from a page that holds data only.
Garbage == [Header(Nobody, 1, FALSE) EXCEPT !.obs = TRUE]

read_header(fl, p) ==
  IF fl[p].h = Zero /\ fl[p].d # Nil THEN Garbage ELSE fl[p].h

\* mutated form: a free area is skipped one sector too far.
M_next_file(fl, p) ==
  LET h == read_header(fl, p)
  IN  IF HDR_FREE(h) THEN (p \div PagesPerSector + 2) * PagesPerSector
      ELSE IF h.iso THEN p + 1 ELSE p + h.max

next_file(fl, p) ==
  LET h == read_header(fl, p)
  IN  IF HDR_FREE(h)
      THEN ((p + PagesPerSector) \div PagesPerSector) * PagesPerSector
      ELSE IF h.iso THEN p + 1 ELSE p + h.max

\* The pages the walk from page a stops at, and the whole walk.
WalkFrom(fl, a) ==
  LET from[p \in 0..(2 * PageCount)] ==
        IF p \in Pages THEN {p} \cup from[next_file(fl, p)] ELSE {}
  IN  from[a]

Walk(fl) == WalkFrom(fl, 0)

IsFile(fl, p, n) == LET h == read_header(fl, p)
                    IN  HDR_ACTIVE(h) /\ ~h.log /\ h.name = n

LeastOf(S) == CHOOSE x \in S : \A y \in S : x <= y

\* The extent the scan of find_file finds, the first of the walk that is file
\* n, INVALID when there is none.
ScanFor(fl, n) ==
  LET found == {p \in Walk(fl) : IsFile(fl, p, n)}
  IN  IF found = {} THEN INVALID ELSE LeastOf(found)

-------------------------------------------------------------------------------
(* An operation under way: fl and ram as they are now, past the states of the *)
(* flash in which the power could have failed, file the slot of its file (0:  *)
(* none), used the slots with references.                                     *)

Begin == [fl |-> flash, ram |-> ram, past |-> {}, file |-> 0, used |-> {}]

\* COFFEE_WRITE, COFFEE_ERASE
Written(o, fl, kind) ==
  [o EXCEPT !.fl = fl,
            !.past = IF kind \in CrashIn THEN o.past \cup {fl} ELSE o.past]
write_header(o, p, h, kind) == Written(o, [o.fl EXCEPT ![p].h = h], kind)
WriteData(o, p, i, v, kind) ==
  Written(o, [o.fl EXCEPT ![p].d = [i |-> i, v |-> v]], kind)

Entry(o) == o.ram.files[o.file]

load_file(o, p) ==
  LET h == read_header(o.fl, p)
      free == {i \in 1..Slots : o.ram.files[i] = NoEntry}
      unreferenced == (1..Slots) \ o.used
      slot == IF free # {} THEN LeastOf(free)
              ELSE IF unreferenced # {} THEN - LeastOf({-i : i \in unreferenced})
              ELSE 0
  IN  IF slot = 0 THEN [o EXCEPT !.file = 0]
      ELSE [o EXCEPT !.file = slot,
             !.ram.files[slot] = [page |-> p, end |-> -1, max |-> h.max,
                                  mod |-> h.mod, records |-> -1]]

find_file(o, n) ==
  LET cached == {i \in 1..Slots : /\ o.ram.files[i] # NoEntry
                                  /\ IsFile(o.fl, o.ram.files[i].page, n)}
      p == ScanFor(o.fl, n)
  IN  IF cached # {} THEN [o EXCEPT !.file = LeastOf(cached)]
      ELSE IF p = INVALID THEN [o EXCEPT !.file = 0]
      ELSE load_file(o, p)

\* The last region that is not zero in the extent itself.
file_end(fl, p) ==
  LET S == {r \in 0..(fl[p].h.max - 1) : p + r \in Pages /\ fl[p + r].d.v # 0}
  IN  IF S = {} THEN 0 ELSE 1 - LeastOf({-r : r \in S})

-------------------------------------------------------------------------------
(* Garbage collection.                                                        *)

\* The pages of the extents and free areas at which the walk stops in S.
PagesOf(fl, S) == Cardinality(UNION {p..(next_file(fl, p) - 1) : p \in S})

\* get_sector_status with its static variables skip and last: the status, the
\* variables for the next sector, and the pages to isolate.  A free area ends
\* with its sector, so its stop is the last of the loop.
get_sector_status(fl, sector, skip, last) ==
  LET start == sector * PagesPerSector
      end == start + PagesPerSector
      stops == WalkFrom(fl, start + skip) \cap start..(end - 1)
      live == {p \in stops : HDR_ACTIVE(read_header(fl, p))}
      free == {p \in stops : HDR_FREE(read_header(fl, p))}
      last_active == \E p \in live : next_file(fl, p) >= end
      active == PagesOf(fl, live) + (IF last THEN skip ELSE 0)
      obsolete == PagesOf(fl, stops \ (live \cup free)) + (IF last THEN 0 ELSE skip)
      over == active + obsolete + PagesOf(fl, free) - PagesPerSector
  IN  IF skip >= PagesPerSector
      THEN [active |-> IF last THEN PagesPerSector ELSE 0,
            obsolete |-> IF last THEN 0 ELSE PagesPerSector,
            skip |-> skip - PagesPerSector, last |-> last,
            isolate |-> IF last \/ skip - PagesPerSector >= PagesPerSector
                        THEN 0 ELSE skip - PagesPerSector]
      ELSE [active |-> IF over > 0 /\ last_active THEN PagesPerSector - obsolete
                       ELSE active,
            obsolete |-> IF over > 0 /\ ~last_active THEN PagesPerSector - active
                         ELSE obsolete,
            skip |-> over, last |-> last_active,
            isolate |-> IF last_active \/ over >= PagesPerSector THEN 0 ELSE over]

Erased(fl, sector) ==
  [p \in Pages |-> IF p \div PagesPerSector = sector THEN Blank ELSE fl[p]]

\* isolate_pages: the headers of the pages from start on.
Isolated(fl, start, n) ==
  [p \in Pages |-> IF p \in start..(start + n - 1)
                   THEN [fl[p] EXCEPT !.h = [Header(Nobody, 0, FALSE)
                                               EXCEPT !.iso = TRUE]]
                   ELSE fl[p]]

\* One sector of the collection, with its status.
CollectIf(g, sector, s) ==
  LET first == sector * PagesPerSector
      o1 == IF first < g.o.ram.next_free
            THEN [g.o EXCEPT !.ram.next_free = first] ELSE g.o
      o2 == IF s.isolate = 0 THEN o1
            ELSE Written(o1, Isolated(o1.fl, first + PagesPerSector, s.isolate), "gc")
  IN  [o |-> IF s.active = 0 /\ s.obsolete > 0
             THEN Written(o2, Erased(o2.fl, sector), "gc") ELSE g.o,
       skip |-> s.skip, last |-> s.last]

CollectSector(g, sector) ==
  CollectIf(g, sector, get_sector_status(g.o.fl, sector, g.skip, g.last))

\* collect_garbage(GC_GREEDY)
collect_garbage(o) ==
  LET after[s \in 0..Sectors] ==
        IF s = 0 THEN [o |-> o, skip |-> 0, last |-> FALSE]
        ELSE CollectSector(after[s - 1], s - 1)
  IN  after[Sectors].o

-------------------------------------------------------------------------------
(* Reserving, removing and merging extents.                                   *)

\* The first run of free areas from next_free on that holds `amount' pages.  The
\* search is given up at a run that begins too near to the last page.
find_contiguous_pages(o, amount) ==
  LET stops == WalkFrom(o.fl, o.ram.next_free)
      free == {p \in stops : HDR_FREE(read_header(o.fl, p))}
      runs == {p \in free : \A q \in free : next_file(o.fl, q) # p}
      fits == {s \in runs : stops \cap s..(s + amount - 1) \subseteq free}
      late == {s \in runs : s + amount >= PageCount}
      first == LeastOf(fits \cup late)
  IN  IF fits \cup late = {} \/ first \in late THEN INVALID ELSE first

\* reserve of a found extent: next_free, header, file object.
Reserved(o, p, h, kind) ==
  LET o1 == IF p = o.ram.next_free
            THEN [o EXCEPT !.ram.next_free = p + h.max] ELSE o
      o2 == load_file(write_header(o1, p, h, kind), p)
  IN  IF o2.file = 0 THEN o2 ELSE [o2 EXCEPT !.ram.files[o2.file].end = 0]

\* The second try of reserve, after a collection.
ReserveAgain(o, h, kind) ==
  LET p == find_contiguous_pages(o, h.max)
  IN  IF p # INVALID THEN Reserved(o, p, h, kind)
      ELSE [o EXCEPT !.ram.gc_wait = TRUE, !.file = 0]

\* reserve with allow_duplicates, given the header of the new extent: file is
\* its slot or 0.
reserve(o, h, kind) ==
  LET p == find_contiguous_pages(o, h.max)
  IN  IF p # INVALID THEN Reserved(o, p, h, kind)
      ELSE IF o.ram.gc_wait THEN [o EXCEPT !.file = 0]
      ELSE ReserveAgain(collect_garbage(o), h, kind)

\* mutated form: the removed extent stays in the cache.
M_Obsolete(o, p) ==
  [write_header(o, p, [read_header(o.fl, p) EXCEPT !.obs = TRUE], "remove")
     EXCEPT !.ram.gc_wait = FALSE]

\* remove_by_page of one extent without its log: header, gc_wait, cache.
Obsolete(o, p) ==
  LET o1 == write_header(o, p, [read_header(o.fl, p) EXCEPT !.obs = TRUE],
                         "remove")
  IN  [o1 EXCEPT !.ram.gc_wait = FALSE,
                 !.ram.files = [i \in 1..Slots |->
                    IF o.ram.files[i].page = p THEN NoEntry ELSE o.ram.files[i]]]

\* remove_by_page with REMOVE_LOG: nothing is done when the log of a modified
\* file is not there any more.
remove_by_page(o, p) ==
  LET h == read_header(o.fl, p)
  IN  IF ~HDR_ACTIVE(h) THEN o
      ELSE IF ~h.mod THEN Obsolete(o, p)
      ELSE IF ~HDR_ACTIVE(read_header(o.fl, h.lp)) THEN o
      ELSE Obsolete(Obsolete(o, h.lp), p)

\* mutated form: the first record of the region is taken, not the last.
M_get_record_index(fl, log, n, r) ==
  LET S == {k \in 0..(n - 1) : /\ log + k \in Pages
                               /\ fl[log + k].d.i = r + 1}
  IN  IF S = {} THEN INVALID ELSE LeastOf(S)

\* get_record_index and read_log_page: the last of the first n records of the
\* log that is of region r, INVALID when there is none.
get_record_index(fl, log, n, r) ==
  LET S == {k \in 0..(n - 1) : /\ log + k \in Pages
                               /\ fl[log + k].d.i = r + 1}
  IN  IF S = {} THEN INVALID ELSE - LeastOf({-k : k \in S})

\* Region r as cfs_read reads it, given how many records the log holds (-1:
\* not known).
ReadRegion(fl, p, mod, records, r) ==
  LET log == fl[p].h.lp
      k == get_record_index(fl, log, IF records < 0 THEN LogRecords ELSE records, r)
  IN  IF mod /\ k # INVALID THEN fl[log + k].d.v ELSE fl[p + r].d.v

\* The regions of the file with object old go one by one into the new extent.
Copied(o, old) ==
  LET copy[r \in 0..old.end] ==
        IF r = 0 THEN o
        ELSE WriteData(copy[r - 1], Entry(o).page + r - 1, 0,
               ReadRegion(copy[r - 1].fl, old.page, old.mod, old.records, r - 1),
               "merge")
  IN  copy[old.end]

\* The new extent takes the place of the old one, unless that could not be
\* removed.
Replaced(o, new, old) ==
  IF HDR_ACTIVE(read_header(o.fl, old.page))
  THEN [Obsolete(o, o.ram.files[new].page) EXCEPT !.file = 0]
  ELSE [o EXCEPT !.used = {new}, !.file = new, !.ram.files[new].end = old.end]

MergeInto(o, old) ==
  IF o.file = 0 THEN o
  ELSE Replaced(remove_by_page(Copied(o, old), old.page), o.file, old)

\* merge_log, into an extent that is twice as large if extend.
merge_log(o, extend) ==
  LET h == read_header(o.fl, Entry(o).page)
  IN  MergeInto(reserve(o, Header(h.name, IF extend THEN 2 * h.max ELSE h.max,
                                  FALSE), "merge"),
                Entry(o))

-------------------------------------------------------------------------------
(* Micro logs.                                                                *)

\* find_next_record, for a log whose index is read in one batch.
find_next_record(o) ==
  LET e == Entry(o)
      log == read_header(o.fl, e.page).lp
      S == {k \in 0..(LogRecords - 1) : o.fl[log + k].d.i = 0}
  IN  IF e.records >= 0 THEN e.records
      ELSE IF S = {} THEN LogRecords ELSE LeastOf(S)

\* The log that was reserved is entered in the header h of the file in slot.
LogEntered(o, slot, h) ==
  IF o.file = 0 THEN o
  ELSE [write_header(o, o.ram.files[slot].page,
                     [h EXCEPT !.mod = TRUE, !.lp = Entry(o).page], "log")
          EXCEPT !.file = slot, !.ram.files[slot].mod = TRUE]

\* create_log: file is 0 when there is no room.
create_log(o) ==
  LET h == read_header(o.fl, Entry(o).page)
  IN  LogEntered(reserve(o, Header(h.name, LogRecords, TRUE), "reserve"),
                 o.file, h)

\* The index of the record, then its data.
WriteRecord(o, k, r, v) ==
  LET p == read_header(o.fl, Entry(o).page).lp + k
  IN  IF o.file = 0 THEN o
      ELSE [WriteData(WriteData(o, p, r + 1, 0, "index"), p, r + 1, v, "log")
              EXCEPT !.ram.files[o.file].records = k + 1]

\* The record goes into the log of the file, or into a new one.
WriteLog(o, r, v) ==
  IF o.file = 0 THEN o
  ELSE IF Entry(o).mod THEN WriteRecord(o, find_next_record(o), r, v)
  ELSE WriteRecord(create_log(o), 0, r, v)

\* mutated form: off by one in the test for a full log.
M_write_log_page(o, r, v) ==
  WriteLog(IF Entry(o).mod /\ find_next_record(o) > LogRecords
           THEN merge_log(o, FALSE) ELSE o, r, v)

\* write_log_page, called again when the log was full and has been merged.
write_log_page(o, r, v) ==
  WriteLog(IF Entry(o).mod /\ find_next_record(o) >= LogRecords
           THEN merge_log(o, FALSE) ELSE o, r, v)

\* The new end of the file, and the dummy that shows it in the extent.
LogAppended(o, r) ==
  LET e == Entry(o)
  IN  IF o.file = 0 \/ r < e.end THEN o
      ELSE WriteData([o EXCEPT !.ram.files[o.file].end = r + 1], e.page + r, 0, Dummy,
                     "log")

-------------------------------------------------------------------------------
(* The calls of an application.                                               *)

\* The end of a file that has been found or made is looked up once.
Opened(o) ==
  IF o.file = 0 THEN o
  ELSE IF Entry(o).end >= 0 THEN [o EXCEPT !.used = {o.file}]
  ELSE [o EXCEPT !.used = {o.file},
                 !.ram.files[o.file].end = file_end(o.fl, Entry(o).page)]

\* cfs_open(name, CFS_WRITE)
OpenWrite(n) ==
  LET o == find_file(Begin, n)
  IN  Opened(IF o.file # 0 THEN o
             ELSE reserve(o, Header(n, DynPages, FALSE), "reserve"))

\* Region r, which is within the extent: in place if that is an append to a
\* file without a log.
WriteRegion(o, r, v) ==
  LET e == Entry(o)
  IN  IF o.file = 0 THEN o
      ELSE IF e.mod \/ r < e.end THEN LogAppended(write_log_page(o, r, v), r)
      ELSE [WriteData(o, e.page + r, 0, v, "append")
              EXCEPT !.ram.files[o.file].end = r + 1]

\* cfs_write of region r of the open file, which is extended first.
cfs_write(o, r, v) ==
  WriteRegion(IF r < Entry(o).max THEN o ELSE merge_log(o, TRUE), r, v)

\* What cfs_open and cfs_read find of file n after a restart.
Contents(fl, n) ==
  LET p == ScanFor(fl, n)
  IN  IF p = INVALID THEN NoFile
      ELSE [i \in 1..file_end(fl, p) |->
              ReadRegion(fl, p, fl[p].h.mod, -1, i - 1)]

\* The operation on file n is carried out, and the file holds `done', or
\* `failed' if the call says so; or the power fails on the way: the flash stays
\* as it was then, the RAM is lost, and the file may hold any of what it held
\* before, `failed' and `done'.
Operation(n, operation, done, failed) ==
  \E o \in {operation} :
    \/ /\ flash' = o.fl /\ ram' = o.ram
       /\ files' = [files EXCEPT ![n] = IF o.file # 0 THEN done ELSE failed]
    \/ /\ flash' \in o.past /\ ram' = Ram0
       /\ \E c \in {Contents(flash', n)} :
            files' = [files EXCEPT ![n] = IF c \in {@, failed, done} THEN c ELSE @]

Regions(f) == IF f = NoFile THEN <<>> ELSE f

\* cfs_open for writing, and cfs_close.  To open a file that is there for
\* reading, and to read it, is the same.
Open(n) == Operation(n, OpenWrite(n), Regions(files[n]), files[n])

\* cfs_open for writing, cfs_seek to a region or to the end, cfs_write.
Write(n) ==
  \E o \in {OpenWrite(n)} :
    LET f == Regions(files[n])
        With(r, v) == [i \in 1..(IF r < Len(f) THEN Len(f) ELSE r + 1) |->
                         IF i = r + 1 THEN v ELSE f[i]]
    IN  /\ o.file # 0
        /\ \E r \in 0..Entry(o).end, v \in Values :
             r < MaxRegions[n] /\ Operation(n, cfs_write(o, r, v), With(r, v), f)

cfs_remove(n) ==
  LET o == find_file(Begin, n)
  IN  o.file # 0 /\ Operation(n, remove_by_page(o, Entry(o).page), NoFile, NoFile)

cfs_coffee_format == /\ flash' = [p \in Pages |-> Blank]
                     /\ ram' = Ram0
                     /\ files' = [n \in Names |-> NoFile]

\* The node is switched off and on.
Restart == ram' = Ram0 /\ UNCHANGED <<flash, files>>

Next == \/ \E n \in Names : Open(n) \/ Write(n) \/ cfs_remove(n)
        \/ cfs_coffee_format \/ Restart

Spec == Init /\ [][Next]_vars

-------------------------------------------------------------------------------
\* The type invariant.
TypeOK ==
  /\ \A p \in Pages :
       /\ flash[p].d.i \in 0..PageCount
       /\ flash[p].d.v \in {0, Dummy} \cup Values
       /\ flash[p].h # Zero =>
            flash[p].h.max \in 0..PageCount /\ flash[p].h.lp \in Pages
  /\ ram.next_free \in 0..PageCount /\ ram.gc_wait \in BOOLEAN
  /\ \A i \in 1..Slots :
       LET e == ram.files[i]
       IN  e # NoEntry => /\ e.page \in Pages /\ e.max \in 1..PageCount
                          /\ e.end \in -1..e.max /\ e.records \in -1..LogRecords

ActiveStarts == {p \in Pages : HDR_ACTIVE(flash[p].h)}

\* The quick-skip walk stops at every active extent, and nowhere inside one.
QuickSkipFindsAll ==
  \A p \in ActiveStarts :
    Walk(flash) \cap p..(p + flash[p].h.max - 1) = {p}

\* A cached file object says what the flash says: an active extent, its size,
\* its end and how far its log is written.
CacheTrue ==
  \A i \in 1..Slots :
    LET e == ram.files[i]
        h == flash[e.page].h
    IN  e # NoEntry =>
          /\ HDR_ACTIVE(h) /\ e.max = h.max /\ e.mod = h.mod
          /\ e.end >= 0 /\ ~h.log => e.end = file_end(flash, e.page)
          /\ e.records >= 0 =>
               \A k \in 0..(LogRecords - 1) :
                 flash[h.lp + k].d.i # 0 <=> k < e.records

\* No free page is forgotten: the search for free pages starts at next_free.
NextFreeFirst ==
  \A p \in Walk(flash) : HDR_FREE(read_header(flash, p)) => p >= ram.next_free

\* The collector is not run again in vain, and only then not: while gc_wait
\* is set it would erase nothing.
GcWaitTrue == ram.gc_wait => collect_garbage(Begin).fl = flash

\* What the RAM keeps is true of the flash after every operation, failed ones
\* included: file objects, where the free pages begin, and whether the
\* collector can be spared.
RamTrue == CacheTrue /\ NextFreeFirst /\ GcWaitTrue

\* Every file holds what was written to it by the calls that reported success,
\* through logs, merges, extensions, collections and restarts; and a power
\* failure leaves the file being written as it was or as it was to be, and all
\* others alone.
FilesHold == \A n \in Names : Contents(flash, n) = files[n]
===============================================================================
