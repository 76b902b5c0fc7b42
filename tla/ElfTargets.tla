----------------------------- MODULE ElfTargets -----------------------------
(***************************************************************************)
(* What each ELF target does with each relocation type (src/elf/arch-*.cc  *)
(* and the target structs of src/elf/elf.h), as tables from the type's     *)
(* name (without its R_<target>_ prefix) to the name of a rule.            *)
(*                                                                         *)
(*   Scan_t      the case of InputSection<E>::scan_relocations             *)
(*   Apply_t     the case of InputSection<E>::apply_reloc_alloc            *)
(*   Nonalloc_t  the case of InputSection<E>::apply_reloc_nonalloc         *)
(*   Eh_t        the types EhFrameSection<E>::apply_reloc accepts          *)
(*   Plt_t       the table words a PLT and a .plt.got entry load           *)
(*   Target_t    the constants of the target struct the linker reads       *)
(*                                                                         *)
(* ElfReloc.tla gives the rules their meaning; how a value is packed into  *)
(* an instruction's bit fields is left out.                                *)
(***************************************************************************)
EXTENDS TLC

\* The types of one group of case labels, all mapped to one rule.
For(rule, types) == [t \in types |-> rule]

-----------------------------------------------------------------------------
\* arch-x86-64.cc
Scan_x86_64 ==
  For("absrel", {"8", "16", "32", "32S"})
  @@ For("dyn_absrel", {"64"})
  @@ For("pcrel", {"PC8", "PC16", "PC32", "PC64"})
  @@ For("got", {"GOT32", "GOT64", "GOTPC32", "GOTPC64", "GOTPCREL", "GOTPCREL64", "GOTPCRELX",
       "REX_GOTPCRELX"})
  @@ For("plt", {"PLT32", "PLTOFF64"})
  @@ For("gd_or_ie", {"TLSGD"})
  @@ For("ld_call", {"TLSLD"})
  @@ For("ie_or_le", {"GOTTPOFF"})
  @@ For("tlsdesc", {"GOTPC32_TLSDESC"})
  @@ For("tlsle", {"TPOFF32", "TPOFF64"})
  @@ For("none", {"GOTOFF64", "DTPOFF32", "DTPOFF64", "SIZE32", "SIZE64", "TLSDESC_CALL"})
ApplyData_x86_64 ==
  For("abs", {"8", "16", "32", "32S"})
  @@ For("dyn_absrel", {"64"})
  @@ For("pc", {"PC8", "PC16", "PC32", "PLT32", "PC64"})
  @@ For("got", {"GOT32", "GOT64", "GOTPCREL", "GOTPCREL64"})
  @@ For("gotoff", {"GOTOFF64", "PLTOFF64"})
  @@ For("gotbase", {"GOTPC32", "GOTPC64"})
  @@ For("got_or_pc", {"GOTPCRELX", "REX_GOTPCRELX"})
ApplyTls_x86_64 ==
  For("gd_or_ie", {"TLSGD"})
  @@ For("ld_call", {"TLSLD"})
  @@ For("dtp", {"DTPOFF32", "DTPOFF64"})
  @@ For("tp", {"TPOFF32", "TPOFF64"})
  @@ For("ie_or_le", {"GOTTPOFF"})
  @@ For("tlsdesc", {"GOTPC32_TLSDESC"})
  @@ For("size", {"SIZE32", "SIZE64"})
  @@ For("none", {"TLSDESC_CALL"})
Apply_x86_64 == ApplyData_x86_64 @@ ApplyTls_x86_64
Nonalloc_x86_64 ==
  For("abs", {"8", "16", "32", "32S"})
  @@ For("tomb_abs", {"64"})
  @@ For("tomb_dtp", {"DTPOFF32", "DTPOFF64"})
  @@ For("gotoff", {"GOTOFF64"})
  @@ For("gotbase", {"GOTPC64"})
  @@ For("size", {"SIZE32", "SIZE64"})
Eh_x86_64 == {"32", "64", "PC32", "PC64"}
Plt_x86_64 == [entry |-> {"gotplt"}, pltgot |-> {"got"}]
Target_x86_64 == [R_ABS |-> "64", ifunc |-> TRUE, tlsdesc |-> TRUE]

-----------------------------------------------------------------------------
\* arch-i386.cc
Scan_i386 ==
  For("absrel", {"8", "16"})
  @@ For("dyn_absrel", {"32"})
  @@ For("pcrel", {"PC8", "PC16", "PC32"})
  @@ For("got", {"GOT32", "GOTPC"})
  @@ For("got_unless_local", {"GOT32X"})
  @@ For("plt", {"PLT32"})
  @@ For("gottp", {"TLS_GOTIE", "TLS_IE"})
  @@ For("gd_or_le", {"TLS_GD"})
  @@ For("ld_call", {"TLS_LDM"})
  @@ For("tlsdesc", {"TLS_GOTDESC"})
  @@ For("tlsle", {"TLS_LE"})
  @@ For("none", {"GOTOFF", "TLS_LDO_32", "SIZE32", "TLS_DESC_CALL"})
Apply_i386 ==
  For("abs", {"8", "16"})
  @@ For("dyn_absrel", {"32"})
  @@ For("pc", {"PC8", "PC16", "PC32", "PLT32"})
  @@ For("got", {"GOT32"})
  @@ For("got_unless_local", {"GOT32X"})
  @@ For("gotoff", {"GOTOFF"})
  @@ For("gotbase", {"GOTPC"})
  @@ For("gottp", {"TLS_GOTIE", "TLS_IE"})
  @@ For("tp", {"TLS_LE"})
  @@ For("gd_or_le", {"TLS_GD"})
  @@ For("ld_call", {"TLS_LDM"})
  @@ For("dtp", {"TLS_LDO_32"})
  @@ For("size", {"SIZE32"})
  @@ For("tlsdesc", {"TLS_GOTDESC"})
  @@ For("none", {"TLS_DESC_CALL"})
Nonalloc_i386 ==
  For("abs", {"8", "16", "PC8", "PC16", "PC32"})
  @@ For("tomb_abs", {"32"})
  @@ For("gotbase", {"GOTPC"})
  @@ For("gotoff", {"GOTOFF"})
  @@ For("tomb_dtp", {"TLS_LDO_32"})
  @@ For("size", {"SIZE32"})
Eh_i386 == {"32", "PC32"}
Plt_i386 == [entry |-> {"gotplt"}, pltgot |-> {"got"}]
Target_i386 == [R_ABS |-> "32", ifunc |-> TRUE, tlsdesc |-> TRUE]

-----------------------------------------------------------------------------
\* arch-arm64.cc
Scan_arm64 ==
  For("dyn_absrel", {"ABS64"})
  @@ For("got_page", {"ADR_GOT_PAGE"})
  @@ For("got", {"LD64_GOT_LO12_NC", "LD64_GOTPAGE_LO15"})
  @@ For("plt", {"CALL26", "JUMP26", "PLT32"})
  @@ For("gottp", {"TLSIE_ADR_GOTTPREL_PAGE21", "TLSIE_LD64_GOTTPREL_LO12_NC"})
  @@ For("pcrel", {"ADR_PREL_PG_HI21"})
  @@ For("tlsgd", {"TLSGD_ADR_PAGE21"})
  @@ For("tlsdesc", {"TLSDESC_ADR_PAGE21", "TLSDESC_LD64_LO12", "TLSDESC_ADD_LO12"})
  @@ For("tlsle", {"TLSLE_MOVW_TPREL_G0", "TLSLE_MOVW_TPREL_G0_NC", "TLSLE_MOVW_TPREL_G1",
       "TLSLE_MOVW_TPREL_G1_NC", "TLSLE_MOVW_TPREL_G2", "TLSLE_ADD_TPREL_HI12",
       "TLSLE_ADD_TPREL_LO12", "TLSLE_ADD_TPREL_LO12_NC"})
  @@ For("none", {"ADD_ABS_LO12_NC", "ADR_PREL_LO21", "CONDBR19", "LD_PREL_LO19",
       "LDST16_ABS_LO12_NC", "LDST32_ABS_LO12_NC", "LDST64_ABS_LO12_NC", "LDST128_ABS_LO12_NC",
       "LDST8_ABS_LO12_NC", "MOVW_UABS_G0", "MOVW_UABS_G0_NC", "MOVW_UABS_G1",
       "MOVW_UABS_G1_NC", "MOVW_UABS_G2", "MOVW_UABS_G2_NC", "MOVW_UABS_G3", "PREL16", "PREL32",
       "PREL64", "TLSGD_ADD_LO12_NC", "TLSDESC_CALL"})
ApplyAbs_arm64 ==
  For("dyn_absrel", {"ABS64"})
  @@ For("abs", {"LDST8_ABS_LO12_NC", "ADD_ABS_LO12_NC", "LDST16_ABS_LO12_NC",
       "LDST32_ABS_LO12_NC", "LDST64_ABS_LO12_NC", "LDST128_ABS_LO12_NC", "MOVW_UABS_G0",
       "MOVW_UABS_G0_NC", "MOVW_UABS_G1", "MOVW_UABS_G1_NC", "MOVW_UABS_G2", "MOVW_UABS_G2_NC",
       "MOVW_UABS_G3"})
ApplyPc_arm64 ==
  For("got_page", {"ADR_GOT_PAGE"})
  @@ For("pc", {"ADR_PREL_PG_HI21", "ADR_PREL_LO21", "PLT32", "CONDBR19", "LD_PREL_LO19",
       "PREL16", "PREL32", "PREL64"})
  @@ For("call", {"CALL26", "JUMP26"})
  @@ For("got", {"LD64_GOT_LO12_NC", "LD64_GOTPAGE_LO15"})
ApplyTls_arm64 ==
  For("gottp", {"TLSIE_ADR_GOTTPREL_PAGE21", "TLSIE_LD64_GOTTPREL_LO12_NC"})
  @@ For("tp", {"TLSLE_MOVW_TPREL_G0", "TLSLE_MOVW_TPREL_G0_NC", "TLSLE_MOVW_TPREL_G1",
       "TLSLE_MOVW_TPREL_G1_NC", "TLSLE_MOVW_TPREL_G2", "TLSLE_ADD_TPREL_HI12",
       "TLSLE_ADD_TPREL_LO12", "TLSLE_ADD_TPREL_LO12_NC"})
  @@ For("tlsgd", {"TLSGD_ADR_PAGE21", "TLSGD_ADD_LO12_NC"})
  @@ For("tlsdesc", {"TLSDESC_ADR_PAGE21", "TLSDESC_LD64_LO12"})
  @@ For("tlsdesc_nop", {"TLSDESC_ADD_LO12"})
  @@ For("none", {"TLSDESC_CALL"})
Apply_arm64 == ApplyAbs_arm64 @@ ApplyPc_arm64 @@ ApplyTls_arm64
Nonalloc_arm64 ==
  For("tomb_abs", {"ABS64"})
  @@ For("abs", {"ABS32"})
Eh_arm64 == {"ABS64", "PREL32", "PREL64"}
Plt_arm64 == [entry |-> {"gotplt"}, pltgot |-> {"got"}]
Target_arm64 == [R_ABS |-> "ABS64", ifunc |-> TRUE, tlsdesc |-> TRUE]

-----------------------------------------------------------------------------
\* arch-arm32.cc
Scan_arm32 ==
  For("dyn_absrel", {"ABS32", "MOVT_ABS", "THM_MOVT_ABS", "TARGET1"})
  @@ For("plt", {"THM_CALL", "CALL", "JUMP24", "PLT32", "THM_JUMP24"})
  @@ For("got", {"GOT_PREL", "GOT_BREL", "TARGET2"})
  @@ For("pcrel", {"MOVT_PREL", "THM_MOVT_PREL", "PREL31"})
  @@ For("tlsgd", {"TLS_GD32"})
  @@ For("tlsld", {"TLS_LDM32"})
  @@ For("gottp", {"TLS_IE32"})
  @@ For("tlsdesc", {"TLS_GOTDESC"})
  @@ For("tlsle", {"TLS_LE32"})
  @@ For("none", {"REL32", "BASE_PREL", "GOTOFF32", "THM_JUMP11", "THM_JUMP19", "MOVW_PREL_NC",
       "MOVW_ABS_NC", "THM_MOVW_PREL_NC", "THM_MOVW_ABS_NC", "TLS_LDO32", "TLS_CALL",
       "THM_TLS_CALL", "V4BX"})
ApplyData_arm32 ==
  For("dyn_absrel", {"ABS32", "TARGET1"})
  @@ For("pc", {"REL32"})
  @@ For("call", {"THM_CALL"})
  @@ For("gotbase", {"BASE_PREL"})
  @@ For("gotoff", {"GOTOFF32"})
  @@ For("got", {"GOT_PREL", "TARGET2", "GOT_BREL"})
ApplyCode_arm32 ==
  For("pc", {"THM_JUMP11", "THM_JUMP19", "MOVW_PREL_NC", "THM_MOVW_PREL_NC", "PREL31",
       "MOVT_PREL", "THM_MOVT_PREL"})
  @@ For("call", {"CALL", "JUMP24", "PLT32", "THM_JUMP24"})
  @@ For("abs", {"MOVW_ABS_NC", "THM_MOVW_ABS_NC", "MOVT_ABS", "THM_MOVT_ABS"})
ApplyTls_arm32 ==
  For("tlsgd", {"TLS_GD32"})
  @@ For("tlsld", {"TLS_LDM32"})
  @@ For("dtp", {"TLS_LDO32"})
  @@ For("gottp", {"TLS_IE32"})
  @@ For("tp", {"TLS_LE32"})
  @@ For("tlsdesc", {"TLS_GOTDESC"})
  @@ For("none", {"TLS_CALL", "THM_TLS_CALL"})
Apply_arm32 == ApplyData_arm32 @@ ApplyCode_arm32 @@ ApplyTls_arm32
Nonalloc_arm32 ==
  For("tomb_abs", {"ABS32"})
  @@ For("tomb_dtp", {"TLS_LDO32"})
Plt_arm32 == [entry |-> {"gotplt"}, pltgot |-> {"got"}]
Target_arm32 == [R_ABS |-> "ABS32", ifunc |-> TRUE, tlsdesc |-> TRUE]

-----------------------------------------------------------------------------
\* arch-riscv.cc
Scan_riscv ==
  For("word32", {"32"})
  @@ For("absrel", {"HI20"})
  @@ For("dyn_absrel", {"64"})
  @@ For("plt", {"CALL", "CALL_PLT", "PLT32"})
  @@ For("got", {"GOT_HI20"})
  @@ For("gottp", {"TLS_GOT_HI20"})
  @@ For("tlsgd", {"TLS_GD_HI20"})
  @@ For("pcrel", {"32_PCREL"})
  @@ For("tlsle", {"TPREL_HI20", "TPREL_LO12_I", "TPREL_LO12_S", "TPREL_ADD"})
  @@ For("none", {"BRANCH", "JAL", "PCREL_HI20", "PCREL_LO12_I", "PCREL_LO12_S", "LO12_I",
       "LO12_S", "ADD8", "ADD16", "ADD32", "ADD64", "SUB8", "SUB16", "SUB32", "SUB64", "ALIGN",
       "RVC_BRANCH", "RVC_JUMP", "RELAX", "SUB6", "SET6", "SET8", "SET16", "SET32"})
ApplyWords_riscv ==
  For("word32", {"32"})
  @@ For("dyn_absrel", {"64"})
  @@ For("pc", {"BRANCH", "JAL", "PCREL_HI20"})
  @@ For("call", {"CALL", "CALL_PLT"})
  @@ For("got", {"GOT_HI20"})
  @@ For("gottp", {"TLS_GOT_HI20"})
  @@ For("tlsgd", {"TLS_GD_HI20"})
  @@ For("none", {"PCREL_LO12_I", "PCREL_LO12_S"})
  @@ For("abs", {"HI20", "LO12_I", "LO12_S"})
ApplyRest_riscv ==
  For("pc", {"RVC_BRANCH", "RVC_JUMP", "PLT32", "32_PCREL"})
  @@ For("none", {"TPREL_ADD", "ALIGN"})
  @@ For("abs", {"ADD8", "ADD16", "ADD32", "ADD64", "SUB8", "SUB16", "SUB32", "SUB64", "SUB6",
       "SET6", "SET8", "SET16", "SET32"})
  @@ For("tp", {"TPREL_HI20", "TPREL_LO12_I", "TPREL_LO12_S"})
Apply_riscv == ApplyWords_riscv @@ ApplyRest_riscv
Nonalloc_riscv ==
  For("abs", {"32", "ADD8", "ADD16", "ADD32", "ADD64", "SUB8", "SUB16", "SUB32", "SUB64",
       "SUB6", "SET6", "SET8", "SET16", "SET32"})
  @@ For("tomb_abs", {"64"})
Eh_riscv == {"ADD32", "SUB8", "SUB16", "SUB32", "SUB6", "SET6", "SET8", "SET16", "SET32", "32_PCREL"}
Plt_riscv == [entry |-> {"gotplt"}, pltgot |-> {"got"}]
\* RV32 shares the tables of RV64.
Target_riscv32 == [R_ABS |-> "32", ifunc |-> TRUE, tlsdesc |-> FALSE]
Target_riscv == [R_ABS |-> "64", ifunc |-> TRUE, tlsdesc |-> FALSE]

-----------------------------------------------------------------------------
\* arch-ppc32.cc
Scan_ppc32 ==
  For("dyn_absrel", {"ADDR32", "UADDR32"})
  @@ For("absrel", {"ADDR14", "ADDR16", "UADDR16", "ADDR16_LO", "ADDR16_HI", "ADDR16_HA",
       "ADDR24", "ADDR30"})
  @@ For("pcrel", {"REL14", "REL16", "REL16_LO", "REL16_HI", "REL16_HA", "REL32"})
  @@ For("got", {"GOT16", "GOT16_LO", "GOT16_HI", "GOT16_HA", "PLT16_LO", "PLT16_HI",
       "PLT16_HA", "PLT32"})
  @@ For("plt", {"REL24", "PLTREL24", "PLTREL32"})
  @@ For("tlsgd", {"GOT_TLSGD16"})
  @@ For("tlsld", {"GOT_TLSLD16"})
  @@ For("gottp", {"GOT_TPREL16"})
  @@ For("tlsle", {"TPREL16_LO", "TPREL16_HI", "TPREL16_HA"})
  @@ For("none", {"LOCAL24PC", "TLS", "TLSGD", "TLSLD", "DTPREL16_LO", "DTPREL16_HI",
       "DTPREL16_HA", "PLTSEQ", "PLTCALL"})
Apply_ppc32 ==
  For("dyn_absrel", {"ADDR32", "UADDR32"})
  @@ For("abs", {"ADDR14", "ADDR16", "UADDR16", "ADDR16_LO", "ADDR16_HI", "ADDR16_HA", "ADDR24",
       "ADDR30"})
  @@ For("got", {"PLT16_LO", "PLT16_HI", "PLT16_HA", "PLT32", "GOT16", "GOT16_LO", "GOT16_HI",
       "GOT16_HA"})
  @@ For("pc", {"REL14", "REL16", "REL16_LO", "REL16_HI", "REL16_HA", "REL24", "LOCAL24PC",
       "REL32", "PLTREL32"})
  @@ For("thunk", {"PLTREL24"})
  @@ For("tp", {"TPREL16_LO", "TPREL16_HI", "TPREL16_HA"})
  @@ For("dtp", {"DTPREL16_LO", "DTPREL16_HI", "DTPREL16_HA"})
  @@ For("tlsgd", {"GOT_TLSGD16"})
  @@ For("tlsld", {"GOT_TLSLD16"})
  @@ For("gottp", {"GOT_TPREL16"})
  @@ For("none", {"TLS", "TLSGD", "TLSLD", "PLTSEQ", "PLTCALL"})
Nonalloc_ppc32 ==
  For("tomb_abs", {"ADDR32"})
Eh_ppc32 == {"ADDR32", "REL32"}
Plt_ppc32 == [entry |-> {"gotplt"}, pltgot |-> {"got"}]
Target_ppc32 == [R_ABS |-> "ADDR32", ifunc |-> TRUE, tlsdesc |-> FALSE]

-----------------------------------------------------------------------------
\* arch-ppc64v1.cc
Scan_ppc64v1 ==
  For("toc", {"ADDR64", "TOC"})
  @@ For("gottp", {"GOT_TPREL16_HA"})
  @@ For("plt", {"REL24"})
  @@ For("got", {"PLT16_HA"})
  @@ For("tlsgd", {"GOT_TLSGD16_HA"})
  @@ For("tlsld", {"GOT_TLSLD16_HA"})
  @@ For("tlsle", {"TPREL16_HA", "TPREL16_LO"})
  @@ For("none", {"REL64", "TOC16_HA", "TOC16_LO", "TOC16_LO_DS", "TOC16_DS", "REL16_HA",
       "REL16_LO", "PLT16_HI", "PLT16_LO", "PLT16_LO_DS", "PLTSEQ", "PLTCALL",
       "GOT_TPREL16_LO_DS", "GOT_TLSGD16_LO", "GOT_TLSLD16_LO", "TLS", "TLSGD", "TLSLD",
       "DTPREL16_HA", "DTPREL16_LO"})
Apply_ppc64v1 ==
  For("toc", {"ADDR64", "TOC"})
  @@ For("gotoff", {"TOC16_HA", "TOC16_LO", "TOC16_DS", "TOC16_LO_DS"})
  @@ For("thunk", {"REL24"})
  @@ For("pc", {"REL64", "REL16_HA", "REL16_LO"})
  @@ For("got", {"PLT16_HA", "PLT16_HI", "PLT16_LO", "PLT16_LO_DS"})
  @@ For("gottp", {"GOT_TPREL16_HA", "GOT_TPREL16_LO_DS"})
  @@ For("tlsgd", {"GOT_TLSGD16_HA", "GOT_TLSGD16_LO"})
  @@ For("tlsld", {"GOT_TLSLD16_HA", "GOT_TLSLD16_LO"})
  @@ For("dtp", {"DTPREL16_HA", "DTPREL16_LO"})
  @@ For("tp", {"TPREL16_HA", "TPREL16_LO"})
  @@ For("none", {"PLTSEQ", "PLTCALL", "TLS", "TLSGD", "TLSLD"})
Nonalloc_ppc64v1 ==
  For("tomb_abs", {"ADDR64"})
  @@ For("abs", {"ADDR32"})
  @@ For("dtp", {"DTPREL64"})
Eh_ppc64v1 == {"ADDR64", "REL32", "REL64"}
Plt_ppc64v1 == [entry |-> {}, pltgot |-> {}]
Target_ppc64v1 == [R_ABS |-> "ADDR64", ifunc |-> TRUE, tlsdesc |-> FALSE]

-----------------------------------------------------------------------------
\* arch-ppc64v2.cc
Scan_ppc64v2 ==
  For("toc_or_dyn", {"ADDR64"})
  @@ For("gottp", {"GOT_TPREL16_HA", "GOT_TPREL_PCREL34"})
  @@ For("plt", {"REL24", "REL24_NOTOC"})
  @@ For("got", {"PLT16_HA", "PLT_PCREL34", "PLT_PCREL34_NOTOC", "GOT_PCREL34"})
  @@ For("tlsgd", {"GOT_TLSGD16_HA", "GOT_TLSGD_PCREL34"})
  @@ For("tlsld", {"GOT_TLSLD16_HA", "GOT_TLSLD_PCREL34"})
  @@ For("tlsle", {"TPREL16_HA", "TPREL16_LO"})
  @@ For("none", {"REL64", "TOC16_HA", "TOC16_LO", "TOC16_LO_DS", "TOC16_DS", "REL16_HA",
       "REL16_LO", "PLT16_HI", "PLT16_LO", "PLT16_LO_DS", "PCREL34", "PLTSEQ", "PLTSEQ_NOTOC",
       "PLTCALL", "PLTCALL_NOTOC", "GOT_TPREL16_LO_DS", "GOT_TLSGD16_LO", "GOT_TLSLD16_LO",
       "TLS", "TLSGD", "TLSLD", "DTPREL16_HA", "DTPREL16_LO", "DTPREL34"})
Apply_ppc64v2 ==
  For("toc_or_dyn", {"ADDR64"})
  @@ For("gotoff", {"TOC16_HA", "TOC16_LO", "TOC16_DS", "TOC16_LO_DS"})
  @@ For("thunk", {"REL24", "REL24_NOTOC"})
  @@ For("pc", {"REL64", "REL16_HA", "REL16_LO", "PCREL34"})
  @@ For("got", {"PLT16_HA", "PLT16_HI", "PLT16_LO", "PLT16_LO_DS", "PLT_PCREL34",
       "PLT_PCREL34_NOTOC", "GOT_PCREL34"})
  @@ For("gottp", {"GOT_TPREL16_HA", "GOT_TPREL16_LO_DS", "GOT_TPREL_PCREL34"})
  @@ For("tlsgd", {"GOT_TLSGD16_HA", "GOT_TLSGD16_LO", "GOT_TLSGD_PCREL34"})
  @@ For("tlsld", {"GOT_TLSLD16_HA", "GOT_TLSLD16_LO", "GOT_TLSLD_PCREL34"})
  @@ For("dtp", {"DTPREL16_HA", "DTPREL16_LO", "DTPREL34"})
  @@ For("tp", {"TPREL16_HA", "TPREL16_LO"})
  @@ For("none", {"PLTSEQ", "PLTSEQ_NOTOC", "PLTCALL", "PLTCALL_NOTOC", "TLS", "TLSGD",
       "TLSLD"})
Nonalloc_ppc64v2 ==
  For("tomb_abs", {"ADDR64"})
  @@ For("abs", {"ADDR32"})
  @@ For("dtp", {"DTPREL64"})
Eh_ppc64v2 == {"ADDR64", "REL32", "REL64"}
Plt_ppc64v2 == [entry |-> {}, pltgot |-> {}]
Target_ppc64v2 == [R_ABS |-> "ADDR64", ifunc |-> TRUE, tlsdesc |-> FALSE]

-----------------------------------------------------------------------------
\* arch-s390x.cc
Scan_s390x ==
  For("dyn_absrel", {"64"})
  @@ For("absrel", {"8", "12", "16", "20", "32"})
  @@ For("pcrel", {"PC16", "PC16DBL", "PC32", "PC32DBL", "PC64"})
  @@ For("got", {"GOT12", "GOT16", "GOT20", "GOT32", "GOT64", "GOTOFF16", "GOTOFF32",
       "GOTOFF64", "GOTPLT12", "GOTPLT16", "GOTPLT20", "GOTPLT32", "GOTPLT64", "GOTPC",
       "GOTPCDBL", "GOTENT"})
  @@ For("plt", {"PLT12DBL", "PLT16DBL", "PLT24DBL", "PLT32", "PLT32DBL", "PLT64", "PLTOFF16",
       "PLTOFF32", "PLTOFF64"})
  @@ For("gottp", {"TLS_GOTIE20", "TLS_IEENT"})
  @@ For("gd_in_place", {"TLS_GD32", "TLS_GD64"})
  @@ For("ld_in_place", {"TLS_LDM32", "TLS_LDM64"})
  @@ For("tlsle", {"TLS_LE32", "TLS_LE64"})
  @@ For("none", {"TLS_LDO32", "TLS_LDO64", "TLS_GDCALL", "TLS_LDCALL"})
ApplyData_s390x ==
  For("dyn_absrel", {"64"})
  @@ For("abs", {"8", "12", "16", "20", "32", "PLT32", "PLT64"})
  @@ For("pc", {"PC12DBL", "PLT12DBL", "PC16", "PC32", "PC64", "PC16DBL", "PLT16DBL", "PC24DBL",
       "PLT24DBL", "PC32DBL", "PLT32DBL"})
  @@ For("got", {"GOT12", "GOTPLT12", "GOT16", "GOTPLT16", "GOT20", "GOTPLT20", "GOT32",
       "GOTPLT32", "GOT64", "GOTPLT64", "GOTENT"})
  @@ For("gotoff", {"GOTOFF16", "PLTOFF16", "GOTOFF32", "PLTOFF32", "GOTOFF64", "PLTOFF64"})
  @@ For("gotbase", {"GOTPC", "GOTPCDBL"})
ApplyTls_s390x ==
  For("tp", {"TLS_LE32", "TLS_LE64"})
  @@ For("gottp", {"TLS_GOTIE20", "TLS_IEENT"})
  @@ For("gd_in_place", {"TLS_GD32", "TLS_GD64"})
  @@ For("none", {"TLS_GDCALL", "TLS_LDCALL"})
  @@ For("ld_in_place", {"TLS_LDM32", "TLS_LDM64"})
  @@ For("dtp", {"TLS_LDO32", "TLS_LDO64"})
Apply_s390x == ApplyData_s390x @@ ApplyTls_s390x
Nonalloc_s390x ==
  For("abs", {"32"})
  @@ For("tomb_abs", {"64"})
  @@ For("tomb_dtp", {"TLS_LDO64"})
Eh_s390x == {"PC32", "64"}
Plt_s390x == [entry |-> {"gotplt"}, pltgot |-> {"got"}]
Target_s390x == [R_ABS |-> "64", ifunc |-> TRUE, tlsdesc |-> FALSE]

-----------------------------------------------------------------------------
\* arch-sparc64.cc
Scan_sparc64 ==
  For("dyn_absrel", {"64"})
  @@ For("absrel", {"8", "5", "6", "7", "10", "11", "13", "16", "22", "32", "REGISTER", "UA16",
       "UA32", "UA64", "PC_HM10", "OLO10", "LOX10", "HM10", "M44", "HIX22", "LO10", "L44",
       "LM22", "HI22", "H44", "HH22"})
  @@ For("plt", {"PLT32", "WPLT30", "WDISP30", "HIPLT22", "LOPLT10", "PCPLT32", "PCPLT22",
       "PCPLT10", "PLT64"})
  @@ For("got", {"GOT13", "GOT10", "GOT22", "GOTDATA_HIX22"})
  @@ For("got_if_imported", {"GOTDATA_OP_HIX22"})
  @@ For("pcrel", {"DISP16", "DISP32", "DISP64", "DISP8", "PC10", "PC22", "PC_LM22", "WDISP16",
       "WDISP19", "WDISP22", "PC_HH22"})
  @@ For("tlsgd", {"TLS_GD_HI22"})
  @@ For("tlsld", {"TLS_LDM_HI22"})
  @@ For("gottp", {"TLS_IE_HI22"})
  @@ For("tls_get_addr", {"TLS_GD_CALL", "TLS_LDM_CALL"})
  @@ For("tlsle", {"TLS_LE_HIX22", "TLS_LE_LOX10"})
  @@ For("none", {"GOTDATA_OP_LOX10", "GOTDATA_OP", "GOTDATA_LOX10", "TLS_GD_LO10",
       "TLS_GD_ADD", "TLS_LDM_LO10", "TLS_LDM_ADD", "TLS_LDO_HIX22", "TLS_LDO_LOX10",
       "TLS_LDO_ADD", "TLS_IE_ADD", "TLS_IE_LD", "TLS_IE_LDX", "TLS_IE_LO10", "SIZE32"})
ApplyData_sparc64 ==
  For("dyn_absrel", {"64"})
  @@ For("abs", {"5", "6", "7", "8", "10", "LO10", "LOPLT10", "11", "13", "16", "UA16", "22",
       "32", "UA32", "PLT32", "PLT64", "UA64", "REGISTER", "HI22", "HIPLT22", "LM22"})
  @@ For("pc", {"DISP8", "DISP16", "DISP32", "PCPLT32", "DISP64", "WDISP16", "WDISP19",
       "WDISP22", "WDISP30", "WPLT30"})
ApplyGot_sparc64 ==
  For("abs", {"OLO10", "HH22", "HM10", "HIX22", "LOX10", "H44", "M44", "L44"})
  @@ For("pc", {"PC10", "PCPLT10", "PC22", "PCPLT22", "PC_LM22", "PC_HH22", "PC_HM10"})
  @@ For("got", {"GOT10", "GOT13", "GOT22"})
  @@ For("gotoff", {"GOTDATA_HIX22", "GOTDATA_LOX10"})
  @@ For("got_or_gotoff", {"GOTDATA_OP_HIX22", "GOTDATA_OP_LOX10"})
  @@ For("none", {"GOTDATA_OP"})
ApplyTls_sparc64 ==
  For("none", {"TLS_GD_ADD", "TLS_LDM_ADD", "TLS_LDO_ADD", "TLS_IE_LD", "TLS_IE_LDX",
       "TLS_IE_ADD"})
  @@ For("tlsgd", {"TLS_GD_HI22", "TLS_GD_LO10"})
  @@ For("tls_get_addr", {"TLS_GD_CALL", "TLS_LDM_CALL"})
  @@ For("tlsld", {"TLS_LDM_HI22", "TLS_LDM_LO10"})
  @@ For("dtp", {"TLS_LDO_HIX22", "TLS_LDO_LOX10"})
  @@ For("gottp", {"TLS_IE_HI22", "TLS_IE_LO10"})
  @@ For("tp", {"TLS_LE_HIX22", "TLS_LE_LOX10"})
  @@ For("size", {"SIZE32"})
Apply_sparc64 == ApplyData_sparc64 @@ ApplyGot_sparc64 @@ ApplyTls_sparc64
Nonalloc_sparc64 ==
  For("tomb_abs", {"64", "UA64"})
  @@ For("abs", {"32", "UA32"})
  @@ For("dtp", {"TLS_DTPOFF32", "TLS_DTPOFF64"})
Eh_sparc64 == {"64", "UA64", "DISP32"}
Plt_sparc64 == [entry |-> {}, pltgot |-> {"got"}]
Target_sparc64 == [R_ABS |-> "64", ifunc |-> TRUE, tlsdesc |-> FALSE]

-----------------------------------------------------------------------------
\* arch-m68k.cc
Scan_m68k ==
  For("dyn_absrel", {"32"})
  @@ For("absrel", {"16", "8"})
  @@ For("pcrel", {"PC32", "PC16", "PC8"})
  @@ For("got", {"GOTPCREL32", "GOTPCREL16", "GOTPCREL8", "GOTOFF32", "GOTOFF16", "GOTOFF8"})
  @@ For("plt", {"PLT32", "PLT16", "PLT8"})
  @@ For("tlsgd", {"TLS_GD32", "TLS_GD16", "TLS_GD8"})
  @@ For("tlsld", {"TLS_LDM32", "TLS_LDM16", "TLS_LDM8"})
  @@ For("gottp", {"TLS_IE32", "TLS_IE16", "TLS_IE8"})
  @@ For("tlsle", {"TLS_LE32", "TLS_LE16", "TLS_LE8"})
  @@ For("none", {"TLS_LDO32", "TLS_LDO16", "TLS_LDO8"})
Apply_m68k ==
  For("dyn_absrel", {"32"})
  @@ For("abs", {"16", "8"})
  @@ For("pc", {"PC32", "PLT32", "PC16", "PLT16", "PC8", "PLT8"})
  @@ For("gotbase", {"GOTPCREL32", "GOTPCREL16", "GOTPCREL8"})
  @@ For("got", {"GOTOFF32", "GOTOFF16", "GOTOFF8"})
  @@ For("tlsgd", {"TLS_GD32", "TLS_GD16", "TLS_GD8"})
  @@ For("tlsld", {"TLS_LDM32", "TLS_LDM16", "TLS_LDM8"})
  @@ For("dtp", {"TLS_LDO32", "TLS_LDO16", "TLS_LDO8"})
  @@ For("gottp", {"TLS_IE32", "TLS_IE16", "TLS_IE8"})
  @@ For("tp", {"TLS_LE32", "TLS_LE16", "TLS_LE8"})
Nonalloc_m68k ==
  For("tomb_abs", {"32"})
Eh_m68k == {"32", "PC32"}
Plt_m68k == [entry |-> {"gotplt"}, pltgot |-> {"got"}]
Target_m68k == [R_ABS |-> "32", ifunc |-> FALSE, tlsdesc |-> FALSE]

-----------------------------------------------------------------------------
\* arch-sh4.cc
Scan_sh4 ==
  For("dyn_absrel", {"DIR32"})
  @@ For("pcrel", {"REL32"})
  @@ For("got", {"GOT32"})
  @@ For("plt", {"PLT32"})
  @@ For("tlsgd", {"TLS_GD_32"})
  @@ For("tlsld", {"TLS_LD_32"})
  @@ For("gottp", {"TLS_IE_32"})
  @@ For("tlsle", {"TLS_LE_32"})
  @@ For("none", {"GOTPC", "GOTOFF", "TLS_LDO_32"})
Apply_sh4 ==
  For("dyn_absrel", {"DIR32"})
  @@ For("pc", {"REL32", "PLT32"})
  @@ For("got", {"GOT32"})
  @@ For("gotbase", {"GOTPC"})
  @@ For("gotoff", {"GOTOFF"})
  @@ For("tlsgd", {"TLS_GD_32"})
  @@ For("tlsld", {"TLS_LD_32"})
  @@ For("dtp", {"TLS_LDO_32"})
  @@ For("gottp", {"TLS_IE_32"})
  @@ For("tp", {"TLS_LE_32"})
Nonalloc_sh4 ==
  For("tomb_abs", {"DIR32"})
Eh_sh4 == {"DIR32", "REL32"}
Plt_sh4 == [entry |-> {"gotplt"}, pltgot |-> {"got"}]
Target_sh4 == [R_ABS |-> "DIR32", ifunc |-> FALSE, tlsdesc |-> FALSE]

-----------------------------------------------------------------------------
\* arch-alpha.cc
Scan_alpha ==
  For("dyn_absrel", {"REFQUAD"})
  @@ For("literal", {"LITERAL"})
  @@ For("pcrel", {"SREL32"})
  @@ For("plt", {"BRSGP"})
  @@ For("tlsgd", {"TLSGD"})
  @@ For("tlsld", {"TLSLDM"})
  @@ For("gottp", {"GOTTPREL"})
  @@ For("tlsle", {"TPRELHI", "TPRELLO"})
  @@ For("none", {"GPREL32", "LITUSE", "GPDISP", "HINT", "GPRELHIGH", "GPRELLOW", "DTPRELHI",
       "DTPRELLO"})
Apply_alpha ==
  For("dyn_absrel", {"REFQUAD"})
  @@ For("gotoff", {"GPREL32", "GPRELHIGH", "GPRELLOW"})
  @@ For("literal", {"LITERAL"})
  @@ For("pc", {"BRSGP", "SREL32"})
  @@ For("gotbase", {"GPDISP"})
  @@ For("tlsgd", {"TLSGD"})
  @@ For("tlsld", {"TLSLDM"})
  @@ For("dtp", {"DTPRELHI", "DTPRELLO"})
  @@ For("gottp", {"GOTTPREL"})
  @@ For("tp", {"TPRELHI", "TPRELLO"})
  @@ For("none", {"LITUSE", "HINT"})
Nonalloc_alpha ==
  For("tomb_abs", {"REFLONG", "REFQUAD"})
Eh_alpha == {"SREL32"}
Plt_alpha == [entry |-> {}, pltgot |-> {}]
Target_alpha == [R_ABS |-> "REFQUAD", ifunc |-> FALSE, tlsdesc |-> FALSE]
-----------------------------------------------------------------------------
\* The tables of a target, by the target's name.
ScanRules ==
  [ x86_64 |-> Scan_x86_64, i386 |-> Scan_i386, arm64 |-> Scan_arm64,
    arm32 |-> Scan_arm32, riscv |-> Scan_riscv, ppc32 |-> Scan_ppc32,
    ppc64v1 |-> Scan_ppc64v1, ppc64v2 |-> Scan_ppc64v2,
    s390x |-> Scan_s390x, sparc64 |-> Scan_sparc64, m68k |-> Scan_m68k,
    sh4 |-> Scan_sh4, alpha |-> Scan_alpha, riscv32 |-> Scan_riscv ]
ApplyForms ==
  [ x86_64 |-> Apply_x86_64, i386 |-> Apply_i386,
    arm64 |-> Apply_arm64, arm32 |-> Apply_arm32,
    riscv |-> Apply_riscv, ppc32 |-> Apply_ppc32,
    ppc64v1 |-> Apply_ppc64v1, ppc64v2 |-> Apply_ppc64v2,
    s390x |-> Apply_s390x, sparc64 |-> Apply_sparc64,
    m68k |-> Apply_m68k, sh4 |-> Apply_sh4, alpha |-> Apply_alpha,
    riscv32 |-> Apply_riscv ]
NonallocForms ==
  [ x86_64 |-> Nonalloc_x86_64, i386 |-> Nonalloc_i386,
    arm64 |-> Nonalloc_arm64, arm32 |-> Nonalloc_arm32,
    riscv |-> Nonalloc_riscv, ppc32 |-> Nonalloc_ppc32,
    ppc64v1 |-> Nonalloc_ppc64v1, ppc64v2 |-> Nonalloc_ppc64v2,
    s390x |-> Nonalloc_s390x, sparc64 |-> Nonalloc_sparc64,
    m68k |-> Nonalloc_m68k, sh4 |-> Nonalloc_sh4,
    alpha |-> Nonalloc_alpha, riscv32 |-> Nonalloc_riscv ]
EhTypes ==
  [ x86_64 |-> Eh_x86_64, i386 |-> Eh_i386, arm64 |-> Eh_arm64,
    arm32 |-> {}, riscv |-> Eh_riscv, ppc32 |-> Eh_ppc32,
    ppc64v1 |-> Eh_ppc64v1, ppc64v2 |-> Eh_ppc64v2, s390x |-> Eh_s390x,
    sparc64 |-> Eh_sparc64, m68k |-> Eh_m68k, sh4 |-> Eh_sh4,
    alpha |-> Eh_alpha, riscv32 |-> Eh_riscv ]
PltReads ==
  [ x86_64 |-> Plt_x86_64, i386 |-> Plt_i386, arm64 |-> Plt_arm64,
    arm32 |-> Plt_arm32, riscv |-> Plt_riscv, ppc32 |-> Plt_ppc32,
    ppc64v1 |-> Plt_ppc64v1, ppc64v2 |-> Plt_ppc64v2,
    s390x |-> Plt_s390x, sparc64 |-> Plt_sparc64, m68k |-> Plt_m68k,
    sh4 |-> Plt_sh4, alpha |-> Plt_alpha, riscv32 |-> Plt_riscv ]
Target ==
  [ x86_64 |-> Target_x86_64, i386 |-> Target_i386,
    arm64 |-> Target_arm64, arm32 |-> Target_arm32,
    riscv |-> Target_riscv, ppc32 |-> Target_ppc32,
    ppc64v1 |-> Target_ppc64v1, ppc64v2 |-> Target_ppc64v2,
    s390x |-> Target_s390x, sparc64 |-> Target_sparc64,
    m68k |-> Target_m68k, sh4 |-> Target_sh4, alpha |-> Target_alpha,
    riscv32 |-> Target_riscv32 ]
=============================================================================
