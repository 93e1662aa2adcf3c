--------------------------- MODULE MCShopSession ---------------------------
(* Nine units of one part, sold two or three at a time.                    *)
EXTENDS ShopSession
============================================================================
