------------------------- MODULE MCShipmentTracking -------------------------
(* A shipment out for delivery, with failed attempts, delivered or         *)
(* returned in the end; code 55 is not in the shop's table.                *)
EXTENDS ShipmentTracking

Attempts == {<<10, 41>>, <<10, 55>>, <<55, 45>>, <<41, 45>>, <<41, 47>>, <<47, 41>>, <<47, 46>>}
============================================================================
