------------------------------- MODULE BookFeed -------------------------------
(***************************************************************************)
(* What the market data session promises the users of its books, with no   *)
(* message, id, price cache or flag: the exchange's books reach the        *)
(* gateway as a feed of successive views, and the book shown for a live    *)
(* symbol is always the one of the latest view taken from the feed.        *)
(***************************************************************************)
EXTENDS Sequences

CONSTANTS Symbols,    \* the symbols shown
          Views       \* the books of all symbols at one moment

VARIABLES source,     \* the exchange's books now
          feed,       \* the views on their way, oldest first
          position,   \* the view taken last
          live,       \* the symbols whose book is promised to be right
          shown       \* the book shown for each symbol

vars == <<source, feed, position, live, shown>>

Init == /\ source \in Views
        /\ feed = <<>> /\ position = source
        /\ live = {}
        /\ shown \in Views

(* The exchange's books change, on the feed or behind a broken one.        *)
Change == /\ source' \in Views
          /\ feed' \in {feed, Append(feed, source')}
          /\ UNCHANGED <<position, live, shown>>

(* More is said without a change.                                          *)
Repeat == /\ feed' = Append(feed, IF feed = <<>> THEN position
                                               ELSE feed[Len(feed)])
          /\ UNCHANGED <<source, position, live, shown>>

(* A subscription: the feed goes on from the books as they are now.        *)
Start == /\ feed' = Append(feed, source)
         /\ UNCHANGED <<source, position, live, shown>>

(* The next view is taken, never skipped or reordered, and every symbol    *)
(* that is live afterwards shows its book in that view.                    *)
Take == /\ feed # <<>>
        /\ feed' = Tail(feed) /\ position' = Head(feed)
        /\ live' \subseteq Symbols
        /\ shown' \in Views
        /\ \A s \in live' : shown'[s] = position'[s]
        /\ UNCHANGED source

(* The connection goes, and with it every promise, not the books shown.    *)
Break == /\ feed' = <<>> /\ live' = {}
         /\ UNCHANGED <<source, position, shown>>

Next == Change \/ Repeat \/ Start \/ Take \/ Break

Spec == Init /\ [][Next]_vars

===============================================================================
