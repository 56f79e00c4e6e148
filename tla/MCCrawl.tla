------------------------------- MODULE MCCrawl -------------------------------
(***************************************************************************)
(* Four websites of four pages: a chain, a circle with a shortcut and a    *)
(* sitemap that knows a page nothing links to, a page robots.txt refuses   *)
(* in the middle of the way, and a home page it refuses.  Each with a cap  *)
(* of one batch, of one and a half, and one it does not reach.             *)
(***************************************************************************)
EXTENDS Crawl

MCPages == {"home", "a", "b", "c"}

Website(home, a, b, c, sitemap, disallowed) ==
    {[links |-> [home |-> home, a |-> a, b |-> b, c |-> c],
      sitemap |-> sitemap, disallowed |-> disallowed, max_pages |-> cap] :
        cap \in {2, 3, 5}}

MCSites ==
    Website({"a"}, {"b"}, {"c"}, {}, {}, {})
    \cup Website({"a", "b"}, {"home", "b"}, {"home"}, {"a"}, {"b", "c"}, {})
    \cup Website({"a", "b"}, {"c"}, {"c"}, {}, {}, {"b"})
    \cup Website({"a"}, {}, {}, {}, {"a"}, {"home"})
=============================================================================
