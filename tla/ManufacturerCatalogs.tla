------------------------- MODULE ManufacturerCatalogs -------------------------
(***************************************************************************)
(* The curated catalogs of six manufacturers, as their extractors return   *)
(* them and the normalizer leaves them: per part its number, the category  *)
(* the manufacturer puts it in and the other numbers it goes by, in upper  *)
(* case.  Names, measures and the vehicles a part fits are left out, but   *)
(* for the one thing the importer reads from a name (Unspoken).            *)
(***************************************************************************)
EXTENDS Sequences, FiniteSets

Part(number, category, others) == [number |-> number, category |-> category, others |-> others]

BoschExtractor ==
    <<Part("0 986 452 061", "Oil Filters", {"0986452061", "F026407061"}),
      Part("3330", "Oil Filters", {"P3330", "BO3330"}),
      Part("5456", "Air Filters", {"WA5456", "C15456"}),
      Part("4417", "Spark Plugs", {"YR7SPP332W", "4417"}),
      Part("8109", "Spark Plugs", {"ZR5TPP332", "8109"}),
      Part("BP1109", "Brake Pads", {"BE1109", "BC1109"}),
      Part("BC905", "Brake Pads", {}),
      Part("24A", "Wipers", {"24OE", "ICON24"}),
      Part("18A", "Wipers", {"18OE", "ICON18"}),
      Part("S4 60AH", "Batteries", {"S4005", "0092S40050"}),
      Part("S5 AGM", "Batteries", {"S5A08", "0092S5A080"})>>

NGKExtractor ==
    <<Part("BKR6E-11", "Spark Plugs", {"BKR6E11", "2756"}),
      Part("LZKAR6AP-11", "Spark Plugs", {"93185", "LZKAR6AP11"}),
      Part("5464", "Spark Plugs", {"IFR6T11", "IX5464"}),
      Part("3403", "Spark Plugs", {"BKR5E", "V3403"}),
      Part("6619", "Spark Plugs", {"ILZKR7B11", "IX6619"}),
      Part("R5671A-8", "Spark Plugs", {"R5671A8", "RACING-8"})>>

DensoExtractor ==
    <<Part("K20TT", "Spark Plugs", {"5344", "IK20TT"}),
      Part("PT20TT", "Spark Plugs", {"3477", "PT20TT"}),
      Part("234-4209", "Sensors", {"2344209", "DOX-0259"}),
      Part("234-9065", "Sensors", {"2349065", "DOX-1506"}),
      Part("143-3065", "Air Filters", {"1433065", "DXA-3065"}),
      Part("143-3040", "Air Filters", {"1433040"}),
      Part("953-0045", "Fuel System", {"9530045", "DFP-0045"}),
      Part("953-5014", "Fuel System", {"9535014"}),
      Part("673-1301", "Ignition System", {"6731301", "DIC-0101"}),
      Part("673-6000", "Ignition System", {"6736000"}),
      Part("453-2077", "Air Filters", {"4532077", "DCF-2077"}),
      Part("453-6028", "Air Filters", {"4536028"})>>

BremboExtractor ==
    <<Part("P83047", "Brake Pads", {"P-83-047", "BRP83047"}),
      Part("P06052", "Brake Pads", {"P-06-052"}),
      Part("P85020", "Brake Pads", {"P-85-020", "BRS85020"}),
      Part("P50084", "Brake Pads", {"P-50-084"}),
      Part("09.9145.11", "Brake Discs", {"09914511", "BR-914511"}),
      Part("09.A747.11", "Brake Discs", {"09A74711", "XTR-A74711"}),
      Part("08.A417.11", "Brake Discs", {"08A41711"}),
      Part("L04010", "Brake Fluid", {"BF-L04010", "DOT4-LV"})>>

MahleExtractor ==
    <<Part("OC 205", "Oil Filters", {"OC205", "OX205D"}),
      Part("OC 264", "Oil Filters", {"OC264", "OX264D"}),
      Part("OC 90", "Oil Filters", {"OC90", "OX90D"}),
      Part("LX 2633", "Air Filters", {"LX2633"}),
      Part("LX 1780", "Air Filters", {"LX1780"}),
      Part("KL 756", "Fuel Filters", {"KL756", "KLH756"}),
      Part("KL 440", "Fuel Filters", {"KL440", "KLH440"}),
      Part("LA 230", "Air Filters", {"LA230", "LAK230"}),
      Part("LA 79", "Air Filters", {"LA79", "LAK79"}),
      Part("LA 368", "Air Filters", {"LA368"})>>

MannExtractor ==
    <<Part("W 712/75", "Oil Filters", {"W71275", "HU71275"}),
      Part("HU 925/4 X", "Oil Filters", {"HU9254X", "HU925/4X"}),
      Part("W 67/2", "Oil Filters", {"W672", "HU672"}),
      Part("C 3698/3", "Air Filters", {"C36983", "C3698/3"}),
      Part("C 2433", "Air Filters", {"C2433"}),
      Part("CUK 2939", "Air Filters", {"CUK2939", "FP2939"}),
      Part("CUK 2442", "Air Filters", {"CUK2442", "FP2442"}),
      Part("CU 22 011", "Air Filters", {"CU22011", "CU-22-011"}),
      Part("WK 853/3", "Fuel Filters", {"WK8533", "WK853/3"}),
      Part("WK 66/1", "Fuel Filters", {"WK661", "WK66/1"})>>

\* The manufacturers, as the import script lists them.
Curated ==
    [Bosch |-> BoschExtractor, NGK |-> NGKExtractor, Denso |-> DensoExtractor,
     Brembo |-> BremboExtractor, Mahle |-> MahleExtractor, MannFilter |-> MannExtractor]

\* The parts whose own product names do not contain their numbers; no name
\* contains the number of another part of its brand.
Unspoken == {"S4 60AH", "L04010"}

\* mapCategory knows a category by a key it equals or contains; these contain
\* none (there is a "battery" and a "car battery", no "batteries").
MapCategory(category) ==
    IF category \in {"Batteries", "Sensors", "Fuel System", "Ignition System", "Fuel Filters"}
    THEN "Engine Parts" ELSE category
=============================================================================
