--------------------------- MODULE MCPageRefresh ---------------------------
(* PageRefresh with the pages of the client, and a check that the handlers *)
(* a section misses are exactly those that write what it reads and fire    *)
(* nothing that it hears.                                                  *)
EXTENDS PageRefresh, PageTable

ASSUME \A page \in AllPages : \A s \in page.sections :
    s.gaps = {h.name : h \in {x \in page.handlers : x.writes \cap s.reads # {}
                                                    /\ x.fires \cap s.hears = {}}}
=============================================================================
