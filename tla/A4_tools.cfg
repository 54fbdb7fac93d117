SPECIFICATION Spec
CONSTANTS
  NInodes = 16
  NBlocks = 24
  EXT2_BLOCK_SIZE = 100
  Dirs <- MCDirs
  Older <- MCOlder
  FirstEntries <- MCFirstEntries
  LastIndex <- MCLastIndex
  LastBlock <- MCLastBlock
  FileBlocks <- MCFileBlocks
  InodeImages <- MCInodeImages
  BlockImages <- MCBlockImages
  Args <- MCArgs
INVARIANTS TypeOK NamedInodesMarked NamedOnce MadeBlocksKept WalkCovers RestoreRefused PathFollowed
PROPERTIES BootBlockHit UsedBlocksKept RemoveTakesOne 
