CONSTANTS
  Kinds = {"FILE"}
  Thumbs = {t1, t2}
  Chunks = 1
SPECIFICATION Spec
PROPERTIES ThumbsAwaited
