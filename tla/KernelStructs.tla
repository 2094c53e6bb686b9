---------------------------- MODULE KernelStructs ----------------------------
(***************************************************************************)
(* The structures of the kernel's sound interface as                       *)
(* src/src/direct/asound_ioctl.rs declares them: the fields with their     *)
(* types, and the size, the alignment and the offsets that the layout      *)
(* tests beside each declaration assert (bindgen's, taken from the C       *)
(* compiler on x86_64).  The file is not part of the module tree, so no    *)
(* build evaluates those assertions.                                       *)
(***************************************************************************)
EXTENDS StructLayout

timespec == Struct(16, 8, <<
  Field("tv_sec", CLong, 0), Field("tv_nsec", CLong, 8)>>)
snd_aes_iec958 == Struct(176, 1, <<
  Field("status", Array(24, CChar), 0),
  Field("subcode", Array(147, CChar), 24), Field("pad", CChar, 171),
  Field("dig_subframe", Array(4, CChar), 172)>>)
snd_cea_861_aud_if == Struct(5, 1, <<
  Field("db1_ct_cc", CChar, 0), Field("db2_sf_ss", CChar, 1),
  Field("db3", CChar, 2), Field("db4_ca", CChar, 3),
  Field("db5_dminh_lsv", CChar, 4)>>)
snd_hwdep_info == Struct(220, 4, <<
  Field("device", CInt, 0), Field("card", CInt, 4),
  Field("id", Array(64, CChar), 8), Field("name", Array(80, CChar), 72),
  Field("iface", CInt, 152), Field("reserved", Array(64, CChar), 156)>>)
snd_hwdep_dsp_status == Struct(64, 4, <<
  Field("version", CInt, 0), Field("id", Array(32, CChar), 4),
  Field("num_dsps", CInt, 36), Field("dsp_loaded", CInt, 40),
  Field("chip_ready", CInt, 44), Field("reserved", Array(16, CChar), 48)>>)
snd_hwdep_dsp_image == Struct(96, 8, <<
  Field("index", CInt, 0), Field("name", Array(64, CChar), 4),
  Field("image", CPtr, 72), Field("length", CLong, 80),
  Field("driver_data", CLong, 88)>>)
snd_pcm_sync_id == Union(16, 4, <<
  Field("id", Array(16, CChar), 0), Field("id16", Array(8, CShort), 0),
  Field("id32", Array(4, CInt), 0),
  Unasserted("_bindgen_union_align", Array(4, CInt))>>)
snd_pcm_info == Struct(288, 4, <<
  Field("device", CInt, 0), Field("subdevice", CInt, 4),
  Field("stream", CInt, 8), Field("card", CInt, 12),
  Field("id", Array(64, CChar), 16), Field("name", Array(80, CChar), 80),
  Field("subname", Array(32, CChar), 160), Field("dev_class", CInt, 192),
  Field("dev_subclass", CInt, 196), Field("subdevices_count", CInt, 200),
  Field("subdevices_avail", CInt, 204),
  Field("sync", snd_pcm_sync_id, 208),
  Field("reserved", Array(64, CChar), 224)>>)
snd_interval == Struct(12, 4, <<
  Field("min", CInt, 0), Field("max", CInt, 4),
  Unasserted("_bitfield_1", Bits(1, CChar)),
  Unasserted("__bindgen_padding_0", Array(3, CChar))>>)
snd_mask == Struct(32, 4, <<
  Field("bits", Array(8, CInt), 0)>>)
snd_pcm_hw_params == Struct(608, 8, <<
  Field("flags", CInt, 0), Field("masks", Array(3, snd_mask), 4),
  Field("mres", Array(5, snd_mask), 100),
  Field("intervals", Array(12, snd_interval), 260),
  Field("ires", Array(9, snd_interval), 404), Field("rmask", CInt, 512),
  Field("cmask", CInt, 516), Field("info", CInt, 520),
  Field("msbits", CInt, 524), Field("rate_num", CInt, 528),
  Field("rate_den", CInt, 532), Field("fifo_size", CLong, 536),
  Field("reserved", Array(64, CChar), 544)>>)
snd_pcm_sw_params == Struct(136, 8, <<
  Field("tstamp_mode", CInt, 0), Field("period_step", CInt, 4),
  Field("sleep_min", CInt, 8), Field("avail_min", CLong, 16),
  Field("xfer_align", CLong, 24), Field("start_threshold", CLong, 32),
  Field("stop_threshold", CLong, 40),
  Field("silence_threshold", CLong, 48), Field("silence_size", CLong, 56),
  Field("boundary", CLong, 64), Field("proto", CInt, 72),
  Field("tstamp_type", CInt, 76), Field("reserved", Array(56, CChar), 80)>>)
snd_pcm_channel_info == Struct(24, 8, <<
  Field("channel", CInt, 0), Field("offset", CLong, 8),
  Field("first", CInt, 16), Field("step", CInt, 20)>>)
snd_pcm_status == Struct(152, 8, <<
  Field("state", CInt, 0), Field("trigger_tstamp", timespec, 8),
  Field("tstamp", timespec, 24), Field("appl_ptr", CLong, 40),
  Field("hw_ptr", CLong, 48), Field("delay", CLong, 56),
  Field("avail", CLong, 64), Field("avail_max", CLong, 72),
  Field("overrange", CLong, 80), Field("suspended_state", CInt, 88),
  Field("audio_tstamp_data", CInt, 92),
  Field("audio_tstamp", timespec, 96),
  Field("driver_tstamp", timespec, 112),
  Field("audio_tstamp_accuracy", CInt, 128),
  Field("reserved", Array(20, CChar), 132)>>)
snd_pcm_mmap_status == Struct(56, 8, <<
  Field("state", CInt, 0), Field("pad1", CInt, 4),
  Field("hw_ptr", CLong, 8), Field("tstamp", timespec, 16),
  Field("suspended_state", CInt, 32), Field("audio_tstamp", timespec, 40)>>)
snd_pcm_mmap_control == Struct(16, 8, <<
  Field("appl_ptr", CLong, 0), Field("avail_min", CLong, 8)>>)
snd_pcm_sync_ptr__bindgen_ty_1 == Union(64, 8, <<
  Field("status", snd_pcm_mmap_status, 0),
  Field("reserved", Array(64, CChar), 0),
  Unasserted("_bindgen_union_align", Array(8, CLongLong))>>)
snd_pcm_sync_ptr__bindgen_ty_2 == Union(64, 8, <<
  Field("control", snd_pcm_mmap_control, 0),
  Field("reserved", Array(64, CChar), 0),
  Unasserted("_bindgen_union_align", Array(8, CLongLong))>>)
snd_pcm_sync_ptr == Struct(136, 8, <<
  Field("flags", CInt, 0), Field("s", snd_pcm_sync_ptr__bindgen_ty_1, 8),
  Field("c", snd_pcm_sync_ptr__bindgen_ty_2, 72)>>)
snd_xferi == Struct(24, 8, <<
  Field("result", CLong, 0), Field("buf", CPtr, 8),
  Field("frames", CLong, 16)>>)
snd_xfern == Struct(24, 8, <<
  Field("result", CLong, 0), Field("bufs", CPtr, 8),
  Field("frames", CLong, 16)>>)
snd_rawmidi_info == Struct(268, 4, <<
  Field("device", CInt, 0), Field("subdevice", CInt, 4),
  Field("stream", CInt, 8), Field("card", CInt, 12),
  Field("flags", CInt, 16), Field("id", Array(64, CChar), 20),
  Field("name", Array(80, CChar), 84),
  Field("subname", Array(32, CChar), 164),
  Field("subdevices_count", CInt, 196),
  Field("subdevices_avail", CInt, 200),
  Field("reserved", Array(64, CChar), 204)>>)
snd_rawmidi_params == Struct(48, 8, <<
  Field("stream", CInt, 0), Field("buffer_size", CLong, 8),
  Field("avail_min", CLong, 16),
  Unasserted("_bitfield_1", Bits(1, CChar)),
  Field("reserved", Array(16, CChar), 25)>>)
snd_rawmidi_status == Struct(56, 8, <<
  Field("stream", CInt, 0), Field("tstamp", timespec, 8),
  Field("avail", CLong, 24), Field("xruns", CLong, 32),
  Field("reserved", Array(16, CChar), 40)>>)
snd_timer_id == Struct(20, 4, <<
  Field("dev_class", CInt, 0), Field("dev_sclass", CInt, 4),
  Field("card", CInt, 8), Field("device", CInt, 12),
  Field("subdevice", CInt, 16)>>)
snd_timer_ginfo == Struct(248, 8, <<
  Field("tid", snd_timer_id, 0), Field("flags", CInt, 20),
  Field("card", CInt, 24), Field("id", Array(64, CChar), 28),
  Field("name", Array(80, CChar), 92), Field("reserved0", CLong, 176),
  Field("resolution", CLong, 184), Field("resolution_min", CLong, 192),
  Field("resolution_max", CLong, 200), Field("clients", CInt, 208),
  Field("reserved", Array(32, CChar), 212)>>)
snd_timer_gparams == Struct(72, 8, <<
  Field("tid", snd_timer_id, 0), Field("period_num", CLong, 24),
  Field("period_den", CLong, 32), Field("reserved", Array(32, CChar), 40)>>)
snd_timer_gstatus == Struct(80, 8, <<
  Field("tid", snd_timer_id, 0), Field("resolution", CLong, 24),
  Field("resolution_num", CLong, 32), Field("resolution_den", CLong, 40),
  Field("reserved", Array(32, CChar), 48)>>)
snd_timer_select == Struct(52, 4, <<
  Field("id", snd_timer_id, 0), Field("reserved", Array(32, CChar), 20)>>)
snd_timer_info == Struct(232, 8, <<
  Field("flags", CInt, 0), Field("card", CInt, 4),
  Field("id", Array(64, CChar), 8), Field("name", Array(80, CChar), 72),
  Field("reserved0", CLong, 152), Field("resolution", CLong, 160),
  Field("reserved", Array(64, CChar), 168)>>)
snd_timer_params == Struct(80, 4, <<
  Field("flags", CInt, 0), Field("ticks", CInt, 4),
  Field("queue_size", CInt, 8), Field("reserved0", CInt, 12),
  Field("filter", CInt, 16), Field("reserved", Array(60, CChar), 20)>>)
snd_timer_status == Struct(96, 8, <<
  Field("tstamp", timespec, 0), Field("resolution", CInt, 16),
  Field("lost", CInt, 20), Field("overrun", CInt, 24),
  Field("queue", CInt, 28), Field("reserved", Array(64, CChar), 32)>>)
snd_timer_read == Struct(8, 4, <<
  Field("resolution", CInt, 0), Field("ticks", CInt, 4)>>)
snd_timer_tread == Struct(32, 8, <<
  Field("event", CInt, 0), Field("tstamp", timespec, 8),
  Field("val", CInt, 24)>>)
snd_ctl_card_info == Struct(376, 4, <<
  Field("card", CInt, 0), Field("pad", CInt, 4),
  Field("id", Array(16, CChar), 8), Field("driver", Array(16, CChar), 24),
  Field("name", Array(32, CChar), 40),
  Field("longname", Array(80, CChar), 72),
  Field("reserved_", Array(16, CChar), 152),
  Field("mixername", Array(80, CChar), 168),
  Field("components", Array(128, CChar), 248)>>)
snd_ctl_elem_id == Struct(64, 4, <<
  Field("numid", CInt, 0), Field("iface", CInt, 4),
  Field("device", CInt, 8), Field("subdevice", CInt, 12),
  Field("name", Array(44, CChar), 16), Field("index", CInt, 60)>>)
snd_ctl_elem_list == Struct(80, 8, <<
  Field("offset", CInt, 0), Field("space", CInt, 4),
  Field("used", CInt, 8), Field("count", CInt, 12),
  Field("pids", CPtr, 16), Field("reserved", Array(50, CChar), 24)>>)
snd_ctl_elem_info__bindgen_ty_1__bindgen_ty_1 == Struct(24, 8, <<
  Field("min", CLong, 0), Field("max", CLong, 8), Field("step", CLong, 16)>>)
snd_ctl_elem_info__bindgen_ty_1__bindgen_ty_2 == Struct(24, 8, <<
  Field("min", CLongLong, 0), Field("max", CLongLong, 8),
  Field("step", CLongLong, 16)>>)
snd_ctl_elem_info__bindgen_ty_1__bindgen_ty_3 == Struct(88, 8, <<
  Field("items", CInt, 0), Field("item", CInt, 4),
  Field("name", Array(64, CChar), 8), Field("names_ptr", CLongLong, 72),
  Field("names_length", CInt, 80)>>)
snd_ctl_elem_info__bindgen_ty_1 == Union(128, 8, <<
  Field("integer", snd_ctl_elem_info__bindgen_ty_1__bindgen_ty_1, 0),
  Field("integer64", snd_ctl_elem_info__bindgen_ty_1__bindgen_ty_2, 0),
  Field("enumerated", snd_ctl_elem_info__bindgen_ty_1__bindgen_ty_3, 0),
  Field("reserved", Array(128, CChar), 0),
  Unasserted("_bindgen_union_align", Array(16, CLongLong))>>)
snd_ctl_elem_info__bindgen_ty_2 == Union(8, 8, <<
  Field("d", Array(4, CShort), 0), Field("d_ptr", CPtr, 0),
  Unasserted("_bindgen_union_align", CLongLong)>>)
snd_ctl_elem_info == Struct(272, 8, <<
  Field("id", snd_ctl_elem_id, 0), Field("type_", CInt, 64),
  Field("access", CInt, 68), Field("count", CInt, 72),
  Field("owner", CInt, 76),
  Field("value", snd_ctl_elem_info__bindgen_ty_1, 80),
  Field("dimen", snd_ctl_elem_info__bindgen_ty_2, 208),
  Field("reserved", Array(56, CChar), 216)>>)
snd_ctl_elem_value__bindgen_ty_1__bindgen_ty_1 == Union(1024, 8, <<
  Field("value", Array(128, CLong), 0), Field("value_ptr", CPtr, 0),
  Unasserted("_bindgen_union_align", Array(128, CLongLong))>>)
snd_ctl_elem_value__bindgen_ty_1__bindgen_ty_2 == Union(512, 8, <<
  Field("value", Array(64, CLongLong), 0), Field("value_ptr", CPtr, 0),
  Unasserted("_bindgen_union_align", Array(64, CLongLong))>>)
snd_ctl_elem_value__bindgen_ty_1__bindgen_ty_3 == Union(512, 8, <<
  Field("item", Array(128, CInt), 0), Field("item_ptr", CPtr, 0),
  Unasserted("_bindgen_union_align", Array(64, CLongLong))>>)
snd_ctl_elem_value__bindgen_ty_1__bindgen_ty_4 == Union(512, 8, <<
  Field("data", Array(512, CChar), 0), Field("data_ptr", CPtr, 0),
  Unasserted("_bindgen_union_align", Array(64, CLongLong))>>)
snd_ctl_elem_value__bindgen_ty_1 == Union(1024, 8, <<
  Field("integer", snd_ctl_elem_value__bindgen_ty_1__bindgen_ty_1, 0),
  Field("integer64", snd_ctl_elem_value__bindgen_ty_1__bindgen_ty_2, 0),
  Field("enumerated", snd_ctl_elem_value__bindgen_ty_1__bindgen_ty_3, 0),
  Field("bytes", snd_ctl_elem_value__bindgen_ty_1__bindgen_ty_4, 0),
  Field("iec958", snd_aes_iec958, 0),
  Unasserted("_bindgen_union_align", Array(128, CLongLong))>>)
snd_ctl_elem_value == Struct(1224, 8, <<
  Field("id", snd_ctl_elem_id, 0),
  Unasserted("_bitfield_1", Bits(1, CChar)),
  Field("value", snd_ctl_elem_value__bindgen_ty_1, 72),
  Field("tstamp", timespec, 1096),
  Field("reserved", Array(112, CChar), 1112)>>)
snd_ctl_tlv == Struct(8, 4, <<
  Field("numid", CInt, 0), Field("length", CInt, 4),
  Field("tlv", Flexible, 8)>>)
snd_ctl_event__bindgen_ty_1__bindgen_ty_1 == Struct(68, 4, <<
  Field("mask", CInt, 0), Field("id", snd_ctl_elem_id, 4)>>)
snd_ctl_event__bindgen_ty_1 == Union(68, 4, <<
  Field("elem", snd_ctl_event__bindgen_ty_1__bindgen_ty_1, 0),
  Field("data8", Array(60, CChar), 0),
  Unasserted("_bindgen_union_align", Array(17, CInt))>>)
snd_ctl_event == Struct(72, 4, <<
  Field("type_", CInt, 0), Field("data", snd_ctl_event__bindgen_ty_1, 4)>>)

KernelDecls == [
  timespec |-> timespec, snd_aes_iec958 |-> snd_aes_iec958,
  snd_cea_861_aud_if |-> snd_cea_861_aud_if,
  snd_hwdep_info |-> snd_hwdep_info,
  snd_hwdep_dsp_status |-> snd_hwdep_dsp_status,
  snd_hwdep_dsp_image |-> snd_hwdep_dsp_image,
  snd_pcm_sync_id |-> snd_pcm_sync_id, snd_pcm_info |-> snd_pcm_info,
  snd_interval |-> snd_interval, snd_mask |-> snd_mask,
  snd_pcm_hw_params |-> snd_pcm_hw_params,
  snd_pcm_sw_params |-> snd_pcm_sw_params,
  snd_pcm_channel_info |-> snd_pcm_channel_info,
  snd_pcm_status |-> snd_pcm_status,
  snd_pcm_mmap_status |-> snd_pcm_mmap_status,
  snd_pcm_mmap_control |-> snd_pcm_mmap_control,
  snd_pcm_sync_ptr__bindgen_ty_1 |-> snd_pcm_sync_ptr__bindgen_ty_1,
  snd_pcm_sync_ptr__bindgen_ty_2 |-> snd_pcm_sync_ptr__bindgen_ty_2,
  snd_pcm_sync_ptr |-> snd_pcm_sync_ptr, snd_xferi |-> snd_xferi,
  snd_xfern |-> snd_xfern, snd_rawmidi_info |-> snd_rawmidi_info,
  snd_rawmidi_params |-> snd_rawmidi_params,
  snd_rawmidi_status |-> snd_rawmidi_status, snd_timer_id |-> snd_timer_id,
  snd_timer_ginfo |-> snd_timer_ginfo,
  snd_timer_gparams |-> snd_timer_gparams,
  snd_timer_gstatus |-> snd_timer_gstatus,
  snd_timer_select |-> snd_timer_select, snd_timer_info |-> snd_timer_info,
  snd_timer_params |-> snd_timer_params,
  snd_timer_status |-> snd_timer_status, snd_timer_read |-> snd_timer_read,
  snd_timer_tread |-> snd_timer_tread,
  snd_ctl_card_info |-> snd_ctl_card_info,
  snd_ctl_elem_id |-> snd_ctl_elem_id,
  snd_ctl_elem_list |-> snd_ctl_elem_list,
  snd_ctl_elem_info__bindgen_ty_1__bindgen_ty_1 |-> snd_ctl_elem_info__bindgen_ty_1__bindgen_ty_1,
  snd_ctl_elem_info__bindgen_ty_1__bindgen_ty_2 |-> snd_ctl_elem_info__bindgen_ty_1__bindgen_ty_2,
  snd_ctl_elem_info__bindgen_ty_1__bindgen_ty_3 |-> snd_ctl_elem_info__bindgen_ty_1__bindgen_ty_3,
  snd_ctl_elem_info__bindgen_ty_1 |-> snd_ctl_elem_info__bindgen_ty_1,
  snd_ctl_elem_info__bindgen_ty_2 |-> snd_ctl_elem_info__bindgen_ty_2,
  snd_ctl_elem_info |-> snd_ctl_elem_info,
  snd_ctl_elem_value__bindgen_ty_1__bindgen_ty_1 |-> snd_ctl_elem_value__bindgen_ty_1__bindgen_ty_1,
  snd_ctl_elem_value__bindgen_ty_1__bindgen_ty_2 |-> snd_ctl_elem_value__bindgen_ty_1__bindgen_ty_2,
  snd_ctl_elem_value__bindgen_ty_1__bindgen_ty_3 |-> snd_ctl_elem_value__bindgen_ty_1__bindgen_ty_3,
  snd_ctl_elem_value__bindgen_ty_1__bindgen_ty_4 |-> snd_ctl_elem_value__bindgen_ty_1__bindgen_ty_4,
  snd_ctl_elem_value__bindgen_ty_1 |-> snd_ctl_elem_value__bindgen_ty_1,
  snd_ctl_elem_value |-> snd_ctl_elem_value, snd_ctl_tlv |-> snd_ctl_tlv,
  snd_ctl_event__bindgen_ty_1__bindgen_ty_1 |-> snd_ctl_event__bindgen_ty_1__bindgen_ty_1,
  snd_ctl_event__bindgen_ty_1 |-> snd_ctl_event__bindgen_ty_1,
  snd_ctl_event |-> snd_ctl_event]
=============================================================================
