--------------------------- MODULE PageAllocator ---------------------------
(***************************************************************************)
(* What a physical page allocator promises its callers, without bitmaps:   *)
(* a fixed set of pages, each either out (with one caller) or in the pool. *)
(* A request hands out some page that is not out; it may fail only when    *)
(* the allocator is not ready, when every page is out, or when the caller  *)
(* asked for nothing.                                                      *)
(***************************************************************************)
CONSTANTS
    Page,     \* the pages of the managed region
    NoPage    \* the failure value

VARIABLES
    ready,    \* the allocator has been initialised
    out,      \* the pages handed out and not yet given back
    asked,    \* the last request was for a non-zero amount
    ret       \* what the last request returned

avars == <<ready, out, asked, ret>>

AInit ==
    /\ ready = FALSE
    /\ out = {}
    /\ asked = FALSE
    /\ ret = NoPage

Setup ==
    /\ ~ready
    /\ ready' = TRUE
    /\ UNCHANGED <<out, asked, ret>>

Grant ==
    /\ ready
    /\ asked' = TRUE
    /\ \E p \in Page \ out :
          /\ out' = out \cup {p}
          /\ ret' = p
    /\ UNCHANGED ready

Fail ==
    /\ ready => out = Page
    /\ asked' = TRUE
    /\ ret' = NoPage
    /\ UNCHANGED <<ready, out>>

Refuse ==
    /\ asked' = FALSE
    /\ ret' = NoPage
    /\ UNCHANGED <<ready, out>>

Free ==
    /\ \E p \in out : out' = out \ {p}
    /\ UNCHANGED <<ready, asked, ret>>

ANext == Setup \/ Grant \/ Fail \/ Refuse \/ Free

ASpec == AInit /\ [][ANext]_avars
=============================================================================
