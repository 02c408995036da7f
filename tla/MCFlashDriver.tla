--------------------------- MODULE MCFlashDriver ----------------------------
EXTENDS FlashDriver

(* Two addresses that are one to the chip, and one at the end of a page. *)
MCTarget == {<<0, 0, 0>>, <<2, 0, 0>>, <<0, 0, 3>>}
MCInstruction == {"PAGE_PROGRAM", "READ_DATA", "CHIP_ERASE", "SECTOR_ERASE",
                  "READ_SR1", "WRITE_SR", "JEDEC_ID", "RESET"}
=============================================================================
