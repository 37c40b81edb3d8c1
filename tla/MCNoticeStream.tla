--------------------------- MODULE MCNoticeStream ---------------------------
(* Small instance of NoticeStream for TLC. *)
EXTENDS NoticeStream, TLC
CONSTANTS p1, p2, t1
MCProducers == {p1, p2}
MCTrimmers == {t1}
=============================================================================
