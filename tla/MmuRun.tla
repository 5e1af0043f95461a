------------------------------- MODULE MmuRun -------------------------------
(***************************************************************************)
(* mmu-run: a launcher fills pages of PSRAM with a program, maps them a    *)
(* second time at the window, calls the program there and takes the window *)
(* down again.  A page is then cached under two addresses, and code in the *)
(* instruction cache besides.  Every cache operation may time out.  Of the *)
(* data only this is kept: which copies of a page hold what was written    *)
(* last (fresh).  window_switch is one step: interrupts are off and core 0 *)
(* is stalled.                                                             *)
(***************************************************************************)
EXTENDS Naturals

CONSTANTS
    Window, \* 1 .. WINDOW_PAGES
    Pages,  \* 64 KiB pages of RAM
    Mask,   \* Mask[k]: image.page_mask of program k
    None

VARIABLES
    pc, call,     \* main
    count,        \* programs loaded: 2 for self-test, 1 for run and exec
    programs,     \* programs[k].memory.pages
    active, fatal,\* struct mmu_window: 0 stands for NULL
    alias,        \* MMU entries of the window, None for INVALID
    ram,          \* pages whose memory is fresh
    native,       \* data cache under the native address: None or [fresh, dirty]
    line,         \* data cache under the window's address
    code,         \* page an instruction cache line was fetched from, or None
    autoload,     \* the caches load lines ahead
    killed        \* a launcher was ended by SIGKILL

winVars == <<active, fatal, alias>>
cacheVars == <<ram, native, line, code>>
vars == <<pc, call, count, programs, winVars, cacheVars, autoload, killed>>

NoPages == [p \in Window |-> None]
Owned == {programs[k][p] : k \in 1 .. 2, p \in Window} \ {None}
Mapped(f) == \E p \in Window : alias[p] = f
PagesOf(k) == IF k = 0 THEN NoPages ELSE programs[k]

Init ==
    /\ pc = "out" /\ call = 0 /\ count = 1
    /\ programs = [k \in 1 .. 2 |-> NoPages]
    /\ active = 0 /\ fatal = FALSE
    /\ alias = NoPages
    /\ ram = Pages
    /\ native = [f \in Pages |-> None]
    /\ line = NoPages
    /\ code = NoPages
    /\ autoload \in BOOLEAN
    /\ killed = FALSE

----------------------------------------------------------------------------
\* The caches.

\* Memory after a copy has been written back to page f.
Stored(r, f, l) == IF l = None \/ ~l.dirty THEN r ELSE IF l.fresh THEN r \cup {f} ELSE r \ {f}
Clean(l) == IF l = None THEN None ELSE [l EXCEPT !.dirty = FALSE]

EvictNative(f) ==
    /\ native[f] # None
    /\ ram' = Stored(ram, f, native[f])
    /\ native' = [native EXCEPT ![f] = None]
    /\ UNCHANGED <<pc, call, count, programs, winVars, line, code, autoload, killed>>

EvictLine(p) ==
    /\ line[p] # None
    /\ ram' = IF alias[p] = None THEN ram ELSE Stored(ram, alias[p], line[p])
    /\ line' = [line EXCEPT ![p] = None]
    /\ UNCHANGED <<pc, call, count, programs, winVars, native, code, autoload, killed>>

\* Lines of a neighbouring page are loaded ahead into this one.
LoadNative(f) ==
    /\ autoload /\ native[f] = None /\ ~Mapped(f)
    /\ native' = [native EXCEPT ![f] = [fresh |-> f \in ram, dirty |-> FALSE]]
    /\ UNCHANGED <<pc, call, count, programs, winVars, ram, line, code, autoload, killed>>

LoadLine(p) ==
    /\ autoload /\ line[p] = None /\ alias[p] # None
    /\ line' = [line EXCEPT ![p] = [fresh |-> alias[p] \in ram, dirty |-> FALSE]]
    /\ UNCHANGED <<pc, call, count, programs, winVars, ram, native, code, autoload, killed>>

----------------------------------------------------------------------------
\* window_switch.

Newer(l) == l # None /\ l.dirty /\ l.fresh
Older(l) == l # None /\ l.dirty /\ ~l.fresh

\* Fault: only the lines of pages that get a new page are written back.
Flush_NewOnly(next, S, T) ==
    LET new(p) == PagesOf(next)[p]
        back == {p \in S \cup T : alias[p] # None /\ new(p) # None}
        gone == {p \in S : alias[p] # None \/ new(p) # None}
        fed == {new(p) : p \in S} \ {None}
        r == (ram \cup {alias[p] : p \in {q \in back : Newer(line[q])}})
                \ {alias[p] : p \in {q \in back : Older(line[q])}}
    IN  /\ ram' = (r \cup {f \in fed : Newer(native[f])}) \ {f \in fed : Older(native[f])}
        /\ native' = [f \in Pages |-> IF f \in fed THEN None ELSE native[f]]
        /\ line' = [p \in Window |-> IF p \in gone THEN None
                                     ELSE IF p \in back THEN Clean(line[p]) ELSE line[p]]
        /\ code' = [p \in Window |-> IF p \in gone THEN None ELSE code[p]]

\* Fault: the instruction cache is left alone.
Flush_KeepsCode(next, S, T) ==
    LET new(p) == PagesOf(next)[p]
        back == {p \in S \cup T : alias[p] # None}
        gone == {p \in S : alias[p] # None \/ new(p) # None}
        fed == {new(p) : p \in S} \ {None}
        r == (ram \cup {alias[p] : p \in {q \in back : Newer(line[q])}})
                \ {alias[p] : p \in {q \in back : Older(line[q])}}
    IN  /\ ram' = (r \cup {f \in fed : Newer(native[f])}) \ {f \in fed : Older(native[f])}
        /\ native' = [f \in Pages |-> IF f \in fed THEN None ELSE native[f]]
        /\ line' = [p \in Window |-> IF p \in gone THEN None
                                     ELSE IF p \in back THEN Clean(line[p]) ELSE line[p]]
        /\ UNCHANGED code

\* Stage 4 for the pages in S, and for those in T no further than the
\* write-back.  Write-back and invalidation of the window's address, the
\* same of the new page's native address.
Flush(next, S, T) ==
    LET new(p) == PagesOf(next)[p]
        back == {p \in S \cup T : alias[p] # None}
        gone == {p \in S : alias[p] # None \/ new(p) # None}
        fed == {new(p) : p \in S} \ {None}
        r == (ram \cup {alias[p] : p \in {q \in back : Newer(line[q])}})
                \ {alias[p] : p \in {q \in back : Older(line[q])}}
    IN  /\ ram' = (r \cup {f \in fed : Newer(native[f])}) \ {f \in fed : Older(native[f])}
        /\ native' = [f \in Pages |-> IF f \in fed THEN None ELSE native[f]]
        /\ line' = [p \in Window |-> IF p \in gone THEN None
                                     ELSE IF p \in back THEN Clean(line[p]) ELSE line[p]]
        /\ code' = [p \in Window |-> IF p \in gone THEN None ELSE code[p]]

\* The core is stalled already, the cache is busy, or the table is not as the
\* launcher left it: nothing is touched.
window_refuse == UNCHANGED <<winVars, cacheVars>>

\* Autoload does not stop, or an operation of stage 4 times out.
window_fatal(next) ==
    /\ alias = PagesOf(active)
    /\ fatal' = TRUE
    /\ \E k \in {0} \cup Window : \E T \in SUBSET (Window \cap {k + 1}) : Flush(next, 1 .. k, T)
    /\ UNCHANGED <<active, alias>>

\* The entries are written; an invalidation after that may time out as well.
\* The lines are gone by then: nobody ran in between.
window_map(next) ==
    /\ alias = PagesOf(active)
    /\ Flush(next, Window, {})
    /\ alias' = PagesOf(next)
    /\ active' = next
    /\ fatal' \in (IF next = 0 THEN {FALSE} ELSE BOOLEAN)

----------------------------------------------------------------------------
\* main.

Exit ==
    /\ pc' = "out" /\ call' = 0
    /\ programs' = [k \in 1 .. 2 |-> NoPages]
    /\ active' = 0 /\ fatal' = FALSE

\* The lock is taken; a window that is mapped already stops the launcher.
Launch(n) ==
    /\ pc = "out"
    /\ alias = NoPages
    /\ count' = n
    /\ pc' = "load"
    /\ UNCHANGED <<call, programs, winVars, cacheVars, autoload, killed>>

\* Pages are mapped, cleared and filled through their native addresses.
load_program(k) ==
    /\ pc = "load" /\ k = call + 1
    /\ \E m \in [Mask[k] -> Pages \ Owned] :
         /\ \A p, q \in Mask[k] : m[p] = m[q] => p = q
         /\ programs' = [programs EXCEPT ![k] = [p \in Window |-> IF p \in Mask[k] THEN m[p] ELSE None]]
         /\ ram' = ram \ {m[p] : p \in Mask[k]}
         /\ native' = [f \in Pages |-> IF \E p \in Mask[k] : m[p] = f
                                       THEN [fresh |-> TRUE, dirty |-> TRUE] ELSE native[f]]
    /\ IF k < count THEN call' = k /\ pc' = pc ELSE call' = 0 /\ pc' = "call"
    /\ UNCHANGED <<count, winVars, line, code, autoload, killed>>

\* A program cannot be loaded, or a signal arrives before they are blocked.
LoadFails ==
    /\ pc = "load"
    /\ Exit
    /\ UNCHANGED <<count, alias, cacheVars, autoload, killed>>

\* The calls of the loop: the programs in turn.
Call ==
    /\ pc = "call"
    /\ LET next == (call % count) + 1
       IN  \/ window_map(next) /\ pc' = IF fatal' THEN "cleanup" ELSE "payload"
           \/ (window_refuse \/ window_fatal(next)) /\ pc' = "cleanup"
    /\ UNCHANGED <<call, count, programs, autoload, killed>>

\* The program writes to its window, reads and executes there.
PayloadWrites(p) ==
    /\ pc = "payload" /\ alias[p] # None
    /\ line' = [line EXCEPT ![p] = [fresh |-> TRUE, dirty |-> TRUE]]
    /\ ram' = ram \ {alias[p]}
    /\ native' = IF native[alias[p]] = None THEN native
                 ELSE [native EXCEPT ![alias[p]].fresh = FALSE]
    /\ UNCHANGED <<pc, call, count, programs, winVars, code, autoload, killed>>

PayloadExecutes(p) ==
    /\ pc = "payload" /\ alias[p] # None
    /\ code[p] = None
    /\ code' = [code EXCEPT ![p] = alias[p]]
    /\ UNCHANGED <<pc, call, count, programs, winVars, ram, native, line, autoload, killed>>

\* invoke returns: by itself, by a signal or by the alarm.
PayloadEnds ==
    /\ pc = "payload"
    /\ \/ pc' = "cleanup" /\ call' = call
       \/ /\ call + 1 < (IF count = 2 THEN 4 ELSE 1)
          /\ pc' = "call" /\ call' = call + 1
    /\ UNCHANGED <<count, programs, winVars, cacheVars, autoload, killed>>

\* Fault: a window that cannot be taken down is left to the next launcher.
Cleanup_Ignore ==
    /\ pc = "cleanup"
    /\ IF fatal THEN pc' = "off" /\ UNCHANGED <<winVars, cacheVars>>
       ELSE IF active = 0
            THEN pc' = (IF alias = NoPages THEN "off" ELSE "fatal") /\ UNCHANGED <<winVars, cacheVars>>
       ELSE \/ window_map(0) /\ pc' = "off"
            \/ (window_refuse \/ window_fatal(0)) /\ pc' = "fatal"
    /\ UNCHANGED <<call, count, programs, autoload, killed>>

\* fatal_stop: the pages are kept, for ever.
Cleanup ==
    /\ pc = "cleanup"
    /\ IF fatal THEN pc' = "fatal" /\ UNCHANGED <<winVars, cacheVars>>
       ELSE IF active = 0
            THEN pc' = (IF alias = NoPages THEN "off" ELSE "fatal") /\ UNCHANGED <<winVars, cacheVars>>
       ELSE \/ window_map(0) /\ pc' = "off"
            \/ (window_refuse \/ window_fatal(0)) /\ pc' = "fatal"
    /\ UNCHANGED <<call, count, programs, autoload, killed>>

\* The result is read through the native addresses and the pages go back.
Done ==
    /\ pc = "off"
    /\ Exit
    /\ UNCHANGED <<count, alias, cacheVars, autoload, killed>>

\* SIGKILL, for instance of the OOM killer: the kernel takes pages and lock.
Kill ==
    /\ pc # "out"
    /\ Exit
    /\ killed' = TRUE
    /\ UNCHANGED <<count, alias, cacheVars, autoload>>

Next ==
    \/ \E f \in Pages : EvictNative(f) \/ LoadNative(f)
    \/ \E p \in Window : EvictLine(p) \/ LoadLine(p) \/ PayloadWrites(p) \/ PayloadExecutes(p)
    \/ \E n \in 1 .. 2 : Launch(n) \/ load_program(n)
    \/ LoadFails \/ Call \/ PayloadEnds \/ Cleanup \/ Done \/ Kill

Spec == Init /\ [][Next]_vars

----------------------------------------------------------------------------
\* A program called in the window finds its own pages there, what was written
\* to them last, whether at load time, in an earlier call or just now, and
\* its own code: window_switch leaves nothing of the program before it in
\* either cache, and nothing of this one behind in the native addresses.
OwnWindow ==
    pc = "payload" =>
      \A p \in Window :
        /\ alias[p] = programs[active][p]
        /\ code[p] \in {None, alias[p]}
        /\ alias[p] # None => IF line[p] = None THEN alias[p] \in ram ELSE line[p].fresh

\* Once the window is down, what the programs wrote can be read back at the
\* native addresses, whichever lines were evicted in the meantime.
NativeReadback ==
    pc = "off" =>
      \A f \in Owned : IF native[f] = None THEN f \in ram ELSE native[f].fresh

\* As long as nobody kills a launcher, a page that is mapped in the window
\* belongs to the launcher: when the window cannot be taken down, main keeps
\* its pages for ever rather than return them to the kernel.
RetainedWhileMapped ==
    ~killed => \A p \in Window : alias[p] # None => alias[p] \in Owned
=============================================================================
