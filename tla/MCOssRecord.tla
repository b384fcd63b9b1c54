----------------------------- MODULE MCOssRecord -----------------------------
(* OssRecord with the sizes of the device in units of 2048 bytes: blocks of 4096, *)
(* frames of 8192, buffers of twice the 8000 bytes of OSS_RecOpen.                *)
EXTENDS OssRecord

MCReads == 1 .. Drv
=============================================================================
