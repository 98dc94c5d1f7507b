----------------------------- MODULE FitLayout -----------------------------
(***************************************************************************)
(* Where the payload of a FIT image goes and where it is entered: the      *)
(* addresses that ostool derives from an ELF, and the DTB and the kernel   *)
(* that it packs for U-Boot.  An address is a number up to TopAddress; an  *)
(* operator that may fail returns a set with one result or none.           *)
(***************************************************************************)
EXTENDS Integers, FiniteSetsExt

CONSTANTS
  TopAddress, \* the largest address
  Elfs,       \* what an ELF may say of itself
  Headers,    \* what the first bytes of a payload may say
  Addresses,  \* explicit addresses
  Derived        \* an address that is to be derived, a symbol that is not there

Address == 0..TopAddress

\* Load segments, with their bytes in the file and in memory; allocated sections with bytes in the file.
Segment == [va : Address, pa : Address, off : Address, fsz : Address, msz : Address]
Section == [va : Address, off : Address, size : Address]

ElfMetadata ==
  [arch : {"loongarch", "x86"}, entry : Address, start : Address \cup {Derived},
   segments : SUBSET Segment, sections : SUBSET Section, size : Address]

\* A kernel image of LoongArch begins with MZ, its entry and its load address, if it is long enough.
ImageHeader == [mz : BOOLEAN, whole : BOOLEAN, entry : Address, load : Address]

ASSUME FitAssumption ==
  /\ TopAddress \in Nat /\ Derived \notin Int
  /\ Elfs \subseteq ElfMetadata /\ Headers \subseteq ImageHeader /\ Addresses \subseteq Address

VARIABLES
  elf,  \* the ELF that is prepared
  fit   \* the FIT image: what it was made from and the addresses in it

fitVars == <<elf, fit>>

NoFit == [made |-> FALSE]

NoElf == [size |-> 0]

FitInit == elf = NoElf /\ fit = NoFit

-----------------------------------------------------------------------------
(***************************************************************************)
(* fit.rs and fit_config.rs.                                               *)
(***************************************************************************)
checked_end(start, size) == start + size <= TopAddress
valid_segment_range(g) == checked_end(g.off, g.fsz) /\ checked_end(g.va, g.fsz) /\ checked_end(g.pa, g.fsz)

validate_elf_load_data(e) ==
  /\ \A g \in e.segments : g.fsz <= g.msz /\ g.off + g.fsz <= e.size /\ checked_end(g.va, g.msz) /\ checked_end(g.pa, g.msz)
  /\ \A s \in e.sections : s.off + s.size <= e.size /\ checked_end(s.va, s.size)

FileBacked(e) == {g \in e.segments : g.fsz # 0}
The(values) == {v \in values : values = {v}}

\* Mutant: a segment that holds the bytes of a section elsewhere in memory is taken too.
Mutant_file_range_only(s, e) ==
  The({g.pa + (s.off - g.off) : g \in {h \in FileBacked(e) : s.off >= h.off /\ s.off + s.size <= h.off + h.fsz}})

\* The load address of a section, from the one segment that holds it in the file and in memory.
section_lma(s, e) ==
  LET holds(g) == /\ s.off >= g.off /\ s.off + s.size <= g.off + g.fsz
                  /\ s.va >= g.va /\ s.va + s.size <= g.va + g.fsz
                  /\ s.off - g.off = s.va - g.va
  IN IF \A g \in FileBacked(e) : valid_segment_range(g)
     THEN The({g.pa + (s.off - g.off) : g \in {h \in FileBacked(e) : holds(h)}}) ELSE {}

bin_load_base(e) ==
  IF e.sections # {} /\ \A s \in e.sections : section_lma(s, e) # {}
  THEN {Min(UNION {section_lma(s, e) : s \in e.sections})} ELSE {}

elf_load_base(e) ==
  IF \A g \in FileBacked(e) : valid_segment_range(g) /\ g.off <= g.pa
  THEN The({g.pa - g.off : g \in FileBacked(e)}) ELSE {}

Base(c, e) == IF c.format = "bin" THEN bin_load_base(e) ELSE elf_load_base(e)

\* An ELF for bootelf is staged somewhere else than where it runs: nothing can be derived.
resolve_load(c, e) ==
  IF c.os = "elf" /\ c.format # "elf" THEN {}
  ELSE IF c.load # Derived THEN {c.load}
  ELSE IF c.os = "elf" THEN {}
  ELSE {base \in Base(c, e) : e.start \in {Derived, base}}

\* The header of a LoongArch kernel says how far its entry is from its start.
loongarch_image_entry(arch, payload, load) ==
  LET h == payload.header
      offset == h.entry - h.load
  IN IF arch # "loongarch" \/ ~h.mz THEN [header |-> FALSE, entry |-> {}]
     ELSE [header |-> TRUE,
           entry |-> IF h.whole /\ offset >= 0 /\ offset < payload.size /\ checked_end(load, offset) THEN {load + offset} ELSE {}]

\* The entry must be a byte of the file that is loaded where it runs.
direct_entry(c, e, load) ==
  LET at == {s \in e.sections : e.entry >= s.va /\ e.entry < s.va + s.size}
  IN IF load \in Base(c, e) /\ at # {} /\ \A s \in at : s.va \in section_lma(s, e) THEN {e.entry} ELSE {}

resolve_entry(c, e, load, payload) ==
  LET image == loongarch_image_entry(e.arch, payload, load)
  IN IF c.os = "elf" THEN IF c.entry \in {Derived, load} THEN {load} ELSE {}
     ELSE IF c.entry # Derived THEN {c.entry}
     ELSE IF c.format = "bin" /\ c.os = "linux" /\ image.header THEN image.entry
     ELSE direct_entry(c, e, load)

\* objcopy -O binary: the bytes from the lowest load address on.  An ELF is packed as it is.
Payload(c, e, header) ==
  [header |-> header,
   size |-> IF c.format = "elf" THEN e.size
            ELSE LET lmas == UNION {section_lma(s, e) : s \in e.sections}
                 IN Max({0} \cup {a + s.size : a \in lmas, s \in e.sections}) - Min({TopAddress} \cup lmas)]

fit_arch_name(arch) == arch # "x86"

-----------------------------------------------------------------------------
(***************************************************************************)
(* drop_stale_initrd: a DTB may carry the initrd of an earlier boot.       *)
(***************************************************************************)
Reservations == {<<0, 2>>, <<1, 2>>}
Dtbs == [chosen : BOOLEAN, start : {Derived, 0, 1}, end : {Derived, 0, 2}, reserved : SUBSET Reservations]

drop_stale_initrd(d) ==
  IF ~d.chosen THEN d
  ELSE [d EXCEPT !.start = Derived, !.end = Derived,
                 !.reserved = IF d.start # Derived /\ d.end # Derived /\ d.end >= d.start THEN @ \ {<<d.start, d.end - d.start>>} ELSE @]

-----------------------------------------------------------------------------
Configs == [format : {"bin", "elf"}, os : {"linux", "elf"}, load : {Derived} \cup Addresses, entry : {Derived} \cup Addresses]

ChooseElf(e) == elf = NoElf /\ fit = NoFit /\ elf' = e /\ UNCHANGED fit

\* The image, when every check passes; else nothing is written.
generate_configured_fit(c, header) ==
  /\ elf # NoElf /\ fit = NoFit /\ validate_elf_load_data(elf) /\ fit_arch_name(elf.arch)
  /\ \E load \in resolve_load(c, elf) :
       LET payload == Payload(c, elf, header)
       IN /\ payload.size > 0
          /\ \E entry \in resolve_entry(c, elf, load, payload) :
               fit' = [made |-> TRUE, by |-> "config", config |-> c, payload |-> payload, load |-> load, entry |-> entry]
  /\ UNCHANGED elf

\* U-Boot gets a BIN at the address that is configured, with the DTB of the board.
generate_fit_image(arch, header, dtb) ==
  /\ fit_arch_name(arch) /\ elf = NoElf /\ fit = NoFit
  /\ \E load \in Addresses :
       LET payload == [header |-> header, size |-> 2]
           image == loongarch_image_entry(arch, payload, load)
       IN \E entry \in IF image.header THEN image.entry ELSE {load} :
            fit' = [made |-> TRUE, by |-> "uboot", payload |-> payload, load |-> load, entry |-> entry,
                    given |-> dtb, dtb |-> drop_stale_initrd(dtb)]
  /\ UNCHANGED elf

FitNext ==
  \/ \E e \in Elfs : ChooseElf(e)
  \/ \E c \in Configs, header \in Headers : generate_configured_fit(c, header)
  \/ \E arch \in {"loongarch", "arm64"}, header \in Headers, dtb \in Dtbs : generate_fit_image(arch, header, dtb)

FitSpec == FitInit /\ [][FitNext]_fitVars

-----------------------------------------------------------------------------
\* Reference: where a loader of the ELF puts every byte of a segment, and where it runs.
BytesOf(e) == UNION {{[offset |-> g.off + i, pa |-> g.pa + i, va |-> g.va + i] : i \in 0..(g.fsz - 1)} : g \in FileBacked(e)}

\* Where U-Boot puts a byte of the file: the payload is one block at the load address.
PlacedAt(f, e, s, i) ==
  IF f.config.format = "elf" THEN f.load + s.off + i
  ELSE f.load + (CHOOSE a \in section_lma(s, e) : TRUE) + i - Min(UNION {section_lma(t, e) : t \in e.sections})

\* With derived addresses every byte of a section is placed where a loader of the ELF would put it,
\* and the entry is the address of the byte that runs first.  The entry of a LoongArch kernel lies
\* in the payload.  The DTB names no initrd of another boot and keeps all other reservations.
FitIsPlacedRight ==
  fit.made =>
    /\ fit.by = "config" /\ fit.config.os = "linux" /\ fit.config.load = Derived =>
         \A s \in elf.sections : \A i \in 0..(s.size - 1) :
           fit.config.format = "bin" \/ (\E b \in BytesOf(elf) : b.offset = s.off + i) =>
             \E b \in BytesOf(elf) : /\ b.offset = s.off + i /\ b.pa = PlacedAt(fit, elf, s, i)
                                     /\ (fit.config.format = "bin" => b.va = s.va + i)
    /\ fit.by = "config" /\ fit.config.os = "linux" /\ fit.config.entry = Derived
         /\ ~(fit.config.format = "bin" /\ loongarch_image_entry(elf.arch, fit.payload, fit.load).header) =>
         \E s \in elf.sections, i \in 0..TopAddress :
           i < s.size /\ s.va + i = elf.entry /\ PlacedAt(fit, elf, s, i) = fit.entry /\ fit.entry = elf.entry
    /\ fit.by = "uboot" \/ fit.config.entry = Derived => fit.entry >= fit.load /\ fit.entry <= TopAddress
    /\ fit.by = "uboot" /\ fit.dtb # fit.given =>
         /\ fit.dtb.start = Derived /\ fit.dtb.end = Derived
         /\ \A r \in fit.given.reserved \ fit.dtb.reserved : r[1] = fit.given.start /\ r[1] + r[2] = fit.given.end
=============================================================================
