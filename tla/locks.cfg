CONSTANTS
  t1 = t1
  t2 = t2
  t3 = t3
  Thread = {t1, t2, t3}
  Shards = 2
  Ops = {"acquire_next_piece", "on_peer_died", "on_received_piece", "add_incoming_peer", "prune_dead_peers", "pex", "pause", "stats", "api_torrent_list", "delete", "stream", "poll_read"}
SPECIFICATION Spec
SYMMETRY Symmetry
INVARIANT NoCircularWait
