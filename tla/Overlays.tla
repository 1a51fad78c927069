------------------------------- MODULE Overlays -------------------------------
(***************************************************************************)
(* The system's "back" closes the topmost overlay: hooks/useBackDismiss.ts *)
(* keeps one history entry per open overlay.  The entries are the          *)
(* browser's and a traversal of them happens some time after it is asked   *)
(* for; the hook counts what it still has to release and which popstate    *)
(* events are its own.  The browser is modelled from its use here.         *)
(***************************************************************************)
EXTENDS Integers, Sequences, SequencesExt

CONSTANTS
    Sheets,             \* the drawers, sheets, search and call screen
    MaxForwards,        \* bound: forward gestures
    MaxTraversals       \* bound: traversals asked for and under way

VARIABLES
    stack,          \* the open overlays
    ignorePops, pendingBacks, backTimer,
    depth, ahead,   \* history entries above the page's own, and beyond the current one
    traversals,     \* asked for and not done: how far each goes
    forwards,
    crossed,        \* a popstate found no overlay to close
    away            \* the user has left the page

overlayVars == <<stack, ignorePops, pendingBacks, backTimer, depth, ahead, traversals,
                 forwards, crossed, away>>

OverlayInit ==
    /\ stack = <<>> /\ ignorePops = 0 /\ pendingBacks = 0 /\ backTimer = FALSE
    /\ depth = 0 /\ ahead = 0 /\ traversals = <<>> /\ forwards = 0
    /\ crossed = FALSE /\ away = FALSE

Open(o) ==
    /\ ~away /\ o \notin ToSet(stack)
    /\ stack' = Append(stack, o)
    /\ IF pendingBacks > 0
         THEN pendingBacks' = pendingBacks - 1 /\ UNCHANGED <<depth, ahead>>
         ELSE depth' = depth + 1 /\ ahead' = 0 /\ UNCHANGED pendingBacks
    /\ UNCHANGED <<ignorePops, backTimer, traversals, forwards, crossed, away>>

\* Closed by a tap, Esc, a swipe, or no longer a phone's: the effect's cleanup.
Close(o) ==
    /\ ~away /\ \E i \in DOMAIN stack : stack[i] = o /\ stack' = RemoveAt(stack, i)
    /\ pendingBacks' = pendingBacks + 1 /\ backTimer' = TRUE
    /\ UNCHANGED <<ignorePops, depth, ahead, traversals, forwards, crossed, away>>

\* Bug: one popstate is expected for each entry released.
ReleaseExpectingEach ==
    /\ ~away /\ backTimer /\ backTimer' = FALSE /\ Len(traversals) < MaxTraversals
    /\ pendingBacks' = 0 /\ ignorePops' = ignorePops + pendingBacks
    /\ traversals' = IF pendingBacks > 0 THEN Append(traversals, -pendingBacks) ELSE traversals
    /\ UNCHANGED <<stack, depth, ahead, forwards, crossed, away>>

\* releaseHistoryEntry's timer
Release ==
    /\ ~away /\ backTimer /\ backTimer' = FALSE /\ Len(traversals) < MaxTraversals
    /\ pendingBacks' = 0
    /\ IF pendingBacks > 0
         THEN ignorePops' = ignorePops + 1 /\ traversals' = Append(traversals, -pendingBacks)
         ELSE UNCHANGED <<ignorePops, traversals>>
    /\ UNCHANGED <<stack, depth, ahead, forwards, crossed, away>>

\* The user's gestures.
Back ==
    /\ ~away /\ Len(traversals) < MaxTraversals /\ traversals' = Append(traversals, -1)
    /\ UNCHANGED <<stack, ignorePops, pendingBacks, backTimer, depth, ahead, forwards,
                   crossed, away>>
Forward ==
    /\ ~away /\ Len(traversals) < MaxTraversals /\ traversals' = Append(traversals, 1)
    /\ forwards < MaxForwards /\ forwards' = forwards + 1
    /\ UNCHANGED <<stack, ignorePops, pendingBacks, backTimer, depth, ahead, crossed, away>>

\* onPopState: closing the overlay finds it off the stack and releases nothing.
OnPopState ==
    IF ignorePops > 0
      THEN ignorePops' = ignorePops - 1 /\ UNCHANGED stack
      ELSE stack' = (IF stack = <<>> THEN stack ELSE Front(stack)) /\ UNCHANGED ignorePops

\* The browser goes where it was asked to.
Traverse ==
    /\ ~away /\ traversals # <<>> /\ traversals' = Tail(traversals)
    /\ LET by == Head(traversals) IN
       \/ by > ahead /\ UNCHANGED <<stack, ignorePops, depth, ahead, away>>
       \/ by <= ahead /\ depth + by >= 0
          /\ depth' = depth + by /\ ahead' = ahead - by /\ OnPopState /\ UNCHANGED away
       \/ depth + by < 0 /\ away' = TRUE /\ UNCHANGED <<stack, ignorePops, depth, ahead>>
    /\ crossed' = (crossed \/ (stack = <<>> /\ ignorePops = 0))
    /\ UNCHANGED <<pendingBacks, backTimer, forwards>>

OverlayNext ==
    \/ \E o \in Sheets : Open(o) \/ Close(o)
    \/ Release \/ Back \/ Forward \/ Traverse

-----------------------------------------------------------------------------
(* Properties *)

\* Whatever the order of overlays opened and closed, timers, gestures and
\* traversals (useBackDismiss.ts, "every open overlay owns exactly one extra
\* history entry"): when nothing is under way there is one entry for each
\* open overlay, and the next popstate is not taken for the hook's own.  So
\* "back" neither leaves the page under an overlay nor does nothing.  The
\* exceptions are a forward gesture, which closes an overlay and adds an
\* entry, and a "back" through an entry still to be released (the last overlay
\* was closed a moment ago): a next overlay counts on that entry.
OneEntryEach ==
    ~away /\ ~backTimer /\ traversals = <<>> /\ forwards = 0 /\ ~crossed =>
        depth = Len(stack) /\ ignorePops = 0 /\ pendingBacks = 0
=============================================================================
