-------------------------------- MODULE Bios --------------------------------
(* What the Bios page draws of a video BIOS: the tables of core/atombios.c *)
(* and the print functions of tui/biosinfo.c.  An image is abstracted to   *)
(* its signature, its length byte, and the revisions and contents of the   *)
(* tables it has; Firmware and PageCache have the queries for it.          *)
EXTENDS Integers, SequencesExt

CONSTANTS CapabilitySize    \* MAX_NAME_SIZE, the room for the names of the capabilities

\* it is 100
ASSUME CapabilitySizeAssumption == CapabilitySize \in Nat /\ CapabilitySize >= 100

Tables == {"firmwareinfo", "smu_info", "gfx_info", "multimedia_info", "vram_info"}

\* atombios_init: nothing is drawn of an image without its signature
atombios_init(image) == image.signature

\* atombios_get_data_by_id: a table that is missing has the offset 0, and what is
\* read as its header is the start of the image, the length byte as its revision
atombios_get_data_by_id(image, table) ==
    IF table \in DOMAIN image.tables
    THEN [format |-> image.tables[table].format, content |-> image.tables[table].content,
          of |-> table]
    ELSE [format |-> image.blocks, content |-> image.code, of |-> "start"]

-----------------------------------------------------------------------------
(* The lines of the page: of which table the values are.                   *)

Revision(image, table, format) == atombios_get_data_by_id(image, table).format = format

FirmwareLines(image) ==
    IF Revision(image, "firmwareinfo", 3)
    THEN {"clocks", "voltages", "capability", "fan", "mc_base"}
             \cup (IF atombios_get_data_by_id(image, "firmwareinfo").content = 3
                   THEN {"pptable"} ELSE {})
    ELSE {}

SmuLines(image) == IF Revision(image, "smu_info", 3) THEN {"smu"} ELSE {}
GfxLines(image) == IF Revision(image, "gfx_info", 2) THEN {"gfx"} ELSE {}
MMLines(image) == IF Revision(image, "multimedia_info", 2) THEN {"uvd", "vce"} ELSE {}

\* the type of the memory is looked up in two contents of one format; the line is
\* always there
VramType(image) ==
    LET table == atombios_get_data_by_id(image, "vram_info")
    IN IF table.format = 2 /\ table.content \in {3, 4} THEN table.of ELSE "unknow"

Source(line) ==
    CASE line = "smu" -> "smu_info"
      [] line = "gfx" -> "gfx_info"
      [] line \in {"uvd", "vce"} -> "multimedia_info"
      [] OTHER -> "firmwareinfo"

BiosLines(image) ==
    LET lines == FirmwareLines(image) \cup SmuLines(image) \cup GfxLines(image)
                     \cup MMLines(image)
    IN IF ~atombios_init(image) THEN <<>>
       ELSE [l \in lines \cup {"vram"} |->
                IF l = "vram" THEN VramType(image)
                ELSE atombios_get_data_by_id(image, Source(l)).of]

-----------------------------------------------------------------------------
(* vbios_get_capability joins the names of the capabilities with snprintf  *)
(* from the buffer into itself, which the C standard leaves open: the C    *)
(* library may empty the buffer first, or copy it in place.                *)

Capabilities == <<"posted", "virtual", "wmi", "hwemu", "cfg", "SRAM_ECC">>
NameLength == <<6, 7, 3, 5, 5, 8>>
Libraries == {"empties_first", "in_place"}

\* the bug of names padded to columns of twenty
JoinedPadded(library, s, c) ==
    LET length == 21 + (IF library = "in_place" THEN s.length ELSE 0)
    IN [length |-> length, size |-> s.size + length]
\* the buffer after one more name, and the size, to which its whole length is added
Joined(library, s, c) ==
    LET length == 1 + NameLength[c] + (IF library = "in_place" THEN s.length ELSE 0)
    IN [length |-> length, size |-> s.size + length]

\* one line for each capability
vbios_get_capability(library, caps) ==
    LET With(s, c) == IF c \in caps THEN Joined(library, s, c) ELSE s
        posted == With([length |-> 0, size |-> 0], 1)
        virtual == With(posted, 2)
        wmi == With(virtual, 3)
        hwemu == With(wmi, 4)
        cfg == With(hwemu, 5)
    IN With(cfg, 6)

=============================================================================
