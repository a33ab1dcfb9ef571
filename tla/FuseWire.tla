------------------------------ MODULE FuseWire ------------------------------
(***************************************************************************)
(* The messages of fuse_kernel.h that the daemon reads and writes, as the  *)
(* bytes their structures take, and from them the sizes FuseLoop has as    *)
(* parameters.  No structure has padding of its own: the header promises   *)
(* fields on their natural boundaries.                                     *)
(***************************************************************************)
EXTENDS Integers

u8 == 1
u16 == 2
u32 == 4
u64 == 8

fuse_in_header  == 2 * u32 + 2 * u64 + 3 * u32 + 2 * u16
fuse_out_header == 2 * u32 + u64

fuse_attr       == 6 * u64 + 10 * u32
fuse_attr_out   == u64 + 2 * u32 + fuse_attr
fuse_entry_out  == 4 * u64 + 2 * u32 + fuse_attr
fuse_init_out   == 4 * u32 + 2 * u16 + 2 * u32 + 2 * u16 + u32 + 7 * u32
fuse_open_out   == u64 + 2 * u32
fuse_lseek_out  == u64
fuse_kstatfs    == 5 * u64 + 4 * u32 + 6 * u32
fuse_statfs_out == fuse_kstatfs
fuse_write_in   == 2 * u64 + 2 * u32 + u64 + 2 * u32

(* sizeof(fuse_dirent), and the offset of its name.                        *)
fuse_dirent     == 2 * u64 + 2 * u32

(* FUSE_REC_ALIGN, and the rounding alloc_chunk and READDIR do. *)
FUSE_REC_ALIGN(x) == ((x + u64 - 1) \div u64) * u64

MiB == 1024 * 1024
BUF_SZ == 32 * MiB   \* 1 << 25

(* The structure each handler names in its FUSE_MESSAGE_PROLOGUE.          *)
OutKinds ==
  [INIT |-> fuse_init_out, GETATTR |-> fuse_attr_out, LSEEK |-> fuse_lseek_out,
   FLUSH |-> u8, ACCESS |-> u8, OPEN |-> fuse_open_out, RELEASE |-> u8,
   LOOKUP |-> fuse_entry_out]

(* INIT answers max_write = BUF_SZ >> 3; a WRITE of that size is the       *)
(* longest request.                                                        *)
max_write == BUF_SZ \div 8
RequestLens == fuse_in_header .. fuse_in_header + fuse_write_in + max_write

(* READLINK's buffer: 128 bytes, doubled while the link does not fit.  The *)
(* kernel's links are shorter than PATH_MAX and its reads at most 1 MiB.   *)
LinkBuffers == {128, 256, 512, 1024, 2048, 4096}
ReadLens == 0 .. MiB
=============================================================================
