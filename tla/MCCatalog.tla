----------------------------- MODULE MCCatalog -----------------------------
(* Small instances of the catalog for TLC. *)
EXTENDS CatalogProperties, TLC

MCColumnCount ==
  [s \in Schemas |-> IF s = "wide" THEN 256 ELSE IF s = "widest" THEN 255
                     ELSE IF s = "broad" THEN 3 ELSE 2]

MCNoStops == {}
MCAllStops == CatalogPhases \ Gone

(* A stop here leaves a file without its content, or the data of a table that is gone. *)
MCHarmlessStops == MCAllStops \ {"writeSchema", "writeHeader", "dropSchemaFolder", "dropData"}

MCStopInDrop == {"idle", "dropData"}
=============================================================================
