-------------------------- MODULE MCTorrentDownload --------------------------
EXTENDS TorrentDownload
=============================================================================
